---------------------------- MODULE Spec2Model ----------------------------
(***************************************************************************)
(* Model of the product-lookup enrichment pipeline                         *)
(* (src/src/productlookup): the batch orchestrator                         *)
(* WebCrawlerService.get_detailed_product_info, the per-item extraction    *)
(* and merge (_process_crawl_result, _fallback_extraction), the field      *)
(* validators and the model-side filter OllamaContentFilter.               *)
(*                                                                         *)
(* A Python str is a sequence of one-character strings, so that regular    *)
(* expressions, strip() and slicing are computed and not assumed.          *)
(***************************************************************************)
EXTENDS Integers, Sequences, FiniteSets, TLC

(***************************************************************************)
(* Characters and strings                                                  *)
(***************************************************************************)
UpperSeq == <<"A","B","C","D","E","F","G","H","I","J","K","L","M",
              "N","O","P","Q","R","S","T","U","V","W","X","Y","Z">>

LowerSeq == <<"a","b","c","d","e","f","g","h","i","j","k","l","m",
              "n","o","p","q","r","s","t","u","v","w","x","y","z">>

Upper == {UpperSeq[k] : k \in 1..Len(UpperSeq)}

Lower == {LowerSeq[k] : k \in 1..Len(LowerSeq)}

Digit == {"0","1","2","3","4","5","6","7","8","9"}

\* \s of the re module and the characters str.strip() removes
Space == {" ", "\t", "\n", "\r", "\f"}

\* re.IGNORECASE: a character class also matches the other case of its letters
IgnoreCase(set) ==
    set \cup {LowerSeq[k] : k \in {j \in 1..Len(UpperSeq) : UpperSeq[j] \in set}}
        \cup {UpperSeq[k] : k \in {j \in 1..Len(LowerSeq) : LowerSeq[j] \in set}}

\* str.upper() of one character
UpperChar(c) ==
    IF c \in Lower THEN UpperSeq[CHOOSE k \in 1..Len(LowerSeq) : LowerSeq[k] = c] ELSE c

\* s[a:b] on 1-based positions a..b-1
Slice(s, a, b) == SubSeq(s, a, b - 1)

RECURSIVE LStrip(_)
LStrip(s) == IF s # <<>> /\ Head(s) \in Space THEN LStrip(Tail(s)) ELSE s

RECURSIVE RStrip(_)
RStrip(s) ==
    IF s # <<>> /\ s[Len(s)] \in Space THEN RStrip(SubSeq(s, 1, Len(s) - 1)) ELSE s

\* str.strip()
Strip(s) == RStrip(LStrip(s))

\* the sentinel value
NotFound == <<"N","o","t"," ","f","o","u","n","d">>

(***************************************************************************)
(* Regular expressions, with the backtracking order of Python's re.  A     *)
(* match state is <<position, group start, group end>> (group 1 only).     *)
(* Ends(r, s, st) is the sequence of states in which a match of r started  *)
(* in state st of s can end, most preferred first (greedy quantifiers try  *)
(* more repetitions first, alternation left to right).                     *)
(***************************************************************************)
Node(t, set, rs, lo, hi) == [t |-> t, set |-> set, rs |-> rs, lo |-> lo, hi |-> hi]

Cls(set) == Node("cls", set, <<>>, 0, 0)

\* [^...]
NotCls(set) == Node("ncls", set, <<>>, 0, 0)

Cat(rs) == Node("cat", {}, rs, 0, 0)

Alt(rs) == Node("alt", {}, rs, 0, 0)

\* r{lo,hi}
Rep(r, lo, hi) == Node("rep", {}, <<r>>, lo, hi)

\* r{lo,}
RepMin(r, lo) == Node("min", {}, <<r>>, lo, 0)

Star(r) == RepMin(r, 0)

Plus(r) == RepMin(r, 1)

Opt(r) == Rep(r, 0, 1)

\* ^
Bol == Node("bol", {}, <<>>, 0, 0)

\* $
Eol == Node("eol", {}, <<>>, 0, 0)

\* ( r ) as group 1
Group(r) == Cat(<<Node("open", {}, <<>>, 0, 0), r, Node("close", {}, <<>>, 0, 0)>>)

\* a literal word under re.IGNORECASE
LitCI(w) == Cat([k \in 1..Len(w) |-> Cls(IgnoreCase({w[k]}))])

\* a literal word, case-sensitive
Lit(w) == Cat([k \in 1..Len(w) |-> Cls({w[k]})])

\* sts without the later states of a position already present, order kept
RECURSIVE FirstOccurrences(_)
FirstOccurrences(sts) ==
    IF sts = <<>> THEN <<>>
    ELSE <<Head(sts)>>
         \o FirstOccurrences(SelectSeq(Tail(sts), LAMBDA st : st[1] # Head(sts)[1]))

RECURSIVE Ends(_, _, _), EndsCat(_, _, _, _), EndsAlt(_, _, _, _),
          EndsRep(_, _, _, _, _), EndsMin(_, _, _, _), EndsEach(_, _, _, _, _, _)

\* the rest of a bounded ("rep") or unbounded ("min") loop from each state of sts
EndsEach(kind, r, lo, hi, s, sts) ==
    IF sts = <<>> THEN <<>>
    ELSE (IF kind = "rep" THEN EndsRep(r, lo, hi, s, Head(sts))
                          ELSE EndsMin(r, lo, s, Head(sts)))
         \o EndsEach(kind, r, lo, hi, s, Tail(sts))

EndsRep(r, lo, hi, s, st) ==
    IF hi = 0 THEN <<st>>
    ELSE EndsEach("rep", r, IF lo > 0 THEN lo - 1 ELSE 0, hi - 1, s, Ends(r, s, st))
         \o (IF lo = 0 THEN <<st>> ELSE <<>>)

\* a repetition that consumed nothing is not repeated again
EndsMin(r, lo, s, st) ==
    EndsEach("min", r, IF lo > 0 THEN lo - 1 ELSE 0, 0, s,
             SelectSeq(Ends(r, s, st), LAMBDA e : e[1] > st[1]))
    \o (IF lo = 0 THEN <<st>> ELSE <<>>)

EndsCat(rs, k, s, st) ==
    IF k > Len(rs) THEN <<st>>
    ELSE LET sts == Ends(rs[k], s, st)
             RECURSIVE Go(_)
             Go(n) == IF n > Len(sts) THEN <<>>
                      ELSE EndsCat(rs, k + 1, s, sts[n]) \o Go(n + 1)
         IN  Go(1)

EndsAlt(rs, k, s, st) ==
    IF k > Len(rs) THEN <<>> ELSE Ends(rs[k], s, st) \o EndsAlt(rs, k + 1, s, st)

\* What follows a state depends on its position alone (the patterns have no
\* back-references), so a position reached a second time is dropped.
Ends(r, s, st) ==
    CASE r.t = "cls" -> IF st[1] <= Len(s) /\ s[st[1]] \in r.set
                        THEN << <<st[1] + 1, st[2], st[3]>> >> ELSE <<>>
      [] r.t = "ncls" -> IF st[1] <= Len(s) /\ s[st[1]] \notin r.set
                         THEN << <<st[1] + 1, st[2], st[3]>> >> ELSE <<>>
      [] r.t = "cat" -> FirstOccurrences(EndsCat(r.rs, 1, s, st))
      [] r.t = "alt" -> FirstOccurrences(EndsAlt(r.rs, 1, s, st))
      [] r.t = "rep" -> FirstOccurrences(EndsRep(r.rs[1], r.lo, r.hi, s, st))
      [] r.t = "min" -> FirstOccurrences(EndsMin(r.rs[1], r.lo, s, st))
      [] r.t = "open" -> << <<st[1], st[1], st[3]>> >>
      [] r.t = "close" -> << <<st[1], st[2], st[1]>> >>
      [] r.t = "bol" -> IF st[1] = 1 THEN <<st>> ELSE <<>>
      \* $ : at the end, or just before a final newline
      [] r.t = "eol" -> IF st[1] = Len(s) + 1 \/ (st[1] = Len(s) /\ s[st[1]] = "\n")
                        THEN <<st>> ELSE <<>>

\* the match of r that starts at position i of s, if any
MatchAt(r, s, i) == Ends(r, s, <<i, 1, 1>>)

\* re.match(r, s) is not None
ReMatch(r, s) == MatchAt(r, s, 1) # <<>>

\* the leftmost position from i on at which r matches in s, 0 if there is none
RECURSIVE FirstStartFrom(_, _, _)
FirstStartFrom(r, s, i) ==
    IF i > Len(s) + 1 THEN 0
    ELSE IF MatchAt(r, s, i) # <<>> THEN i
    ELSE FirstStartFrom(r, s, i + 1)

\* re.search(r, s): found, the start of the match and its end state
Search(r, s) ==
    LET i == FirstStartFrom(r, s, 1) IN
    IF i = 0 THEN [found |-> FALSE, start |-> 0, st |-> <<0, 0, 0>>]
    ELSE [found |-> TRUE, start |-> i, st |-> Head(MatchAt(r, s, i))]

\* re.search(r, s) is not None; re.findall(r, s) is not empty
ReSearch(r, s) == FirstStartFrom(r, s, 1) # 0

\* m.group() of m = re.search(r, s), and re.findall(r, s)[0] for a pattern
\* without groups
Matched(s, m) == Slice(s, m.start, m.st[1])

\* re.findall(r, s)[0] for a pattern with one group
Group1(s, m) == Slice(s, m.st[2], m.st[3])

\* re.sub(r, '', s) for a pattern that can match at most once in s (one
\* anchored with ^, or anchored with $ and consuming at least one character)
SubOnce(r, s) ==
    LET m == Search(r, s) IN
    IF ~m.found THEN s ELSE SubSeq(s, 1, m.start - 1) \o SubSeq(s, m.st[1], Len(s))

(***************************************************************************)
(* Pattern Bank: WebCrawlerService._setup_medical_patterns.  Every use is  *)
(* with re.IGNORECASE.                                                     *)
(***************************************************************************)
AZ == Cls(IgnoreCase(Upper))

D == Cls(Digit)

Ch(c) == Cls({c})

sku_patterns ==
    << Cat(<<Rep(AZ, 2, 4), Rep(D, 3, 6), Opt(AZ)>>),       \* [A-Z]{2,4}\d{3,6}[A-Z]?
       Rep(D, 6, 8),                                        \* \d{6,8}
       Cat(<<Plus(AZ), Plus(D), Plus(AZ)>>),                \* [A-Z]+\d+[A-Z]+
       Cat(<<Rep(D, 3, 4), Ch("-"), Rep(D, 3, 4)>>) >>      \* \d{3,4}-\d{3,4}

part_number_patterns ==
    << Cat(<<Rep(D, 3, 4), Opt(AZ), Ch("/"), Rep(D, 1, 3)>>),   \* \d{3,4}[A-Z]?/\d{1,3}
       Cat(<<Plus(AZ), Rep(D, 2, 4), Opt(AZ)>>),                \* [A-Z]+\d{2,4}[A-Z]?
       \* \d{1,2}\.\d{1,2}-\d{1,2}[A-Z]?[L|ul]
       Cat(<<Rep(D, 1, 2), Ch("."), Rep(D, 1, 2), Ch("-"), Rep(D, 1, 2), Opt(AZ),
             Cls(IgnoreCase({"L", "|", "u", "l"}))>>),
       Cat(<<Plus(AZ), Ch("-"), Rep(D, 3, 4)>>) >>              \* [A-Z]+-\d{3,4}

\* \d+[,\d]*\.?\d*
Amount == Cat(<<Plus(D), Star(Cls(Digit \cup {","})), Opt(Ch(".")), Star(D)>>)

price_patterns ==
    << Cat(<<Ch("$"), Amount>>),                                \* \$\d+[,\d]*\.?\d*
       Cat(<<Ch("$"), Star(Cls(Space)), Amount>>),              \* \$\s*\d+[,\d]*\.?\d*
       Cat(<<Amount, Star(Cls(Space)), LitCI(<<"U","S","D">>)>>) >> \* \d+[,\d]*\.?\d*\s*USD

medical_patterns(pattern_key) ==
    CASE pattern_key = "sku_patterns" -> sku_patterns
      [] pattern_key = "part_number_patterns" -> part_number_patterns
      [] pattern_key = "price_patterns" -> price_patterns

\* WebCrawlerService._extract_from_text
RECURSIVE ExtractFromPatterns(_, _)
ExtractFromPatterns(text, patterns) ==
    IF patterns = <<>> THEN <<>>
    ELSE LET m == Search(Head(patterns), text)
             match == Strip(Matched(text, m))
         IN  IF m.found /\ Len(match) > 2 THEN match
             ELSE ExtractFromPatterns(text, Tail(patterns))

RECURSIVE ExtractAnyLength(_, _)
ExtractAnyLength(text, patterns) ==
    IF patterns = <<>> THEN <<>>
    ELSE LET m == Search(Head(patterns), text)
         IN  IF m.found THEN Strip(Matched(text, m))
             ELSE ExtractAnyLength(text, Tail(patterns))

_extract_from_text_any_length(text, pattern_key) ==
    IF text = <<>> THEN <<>> ELSE ExtractAnyLength(text, medical_patterns(pattern_key))

_extract_from_text(text, pattern_key) ==
    IF text = <<>> THEN <<>> ELSE ExtractFromPatterns(text, medical_patterns(pattern_key))

(***************************************************************************)
(* Python values that reach the pipeline from the crawling engine's        *)
(* field-map and from the model's JSON object.  t is the type, s the text  *)
(* of a str or of a number, l the elements of a list.                      *)
(***************************************************************************)
Absent == [t |-> "absent", s |-> <<>>, l |-> <<>>]

Str(s) == [t |-> "str", s |-> s, l |-> <<>>]

Num(s) == [t |-> "num", s |-> s, l |-> <<>>]

Null == [t |-> "null", s |-> <<>>, l |-> <<>>]

List(l) == [t |-> "list", s |-> <<>>, l |-> l]

\* a nested map {k1: v1, ...} of str, kept as the sequence k1, v1, k2, v2, ...
Dict(l) == [t |-> "dict", s |-> <<>>, l |-> l]

\* bool(v): "if value", "not value", "a or b"
Truthy(v) ==
    CASE v.t = "str" -> v.s # <<>>
      [] v.t = "list" -> v.l # <<>>
      [] v.t = "dict" -> v.l # <<>>
      [] v.t = "num" -> v.s # <<"0">>
      [] OTHER -> FALSE

\* repr() of a list of str: ['a', 'b']
RECURSIVE ReprItems(_)
ReprItems(l) ==
    IF l = <<>> THEN <<>>
    ELSE <<"'">> \o Head(l) \o <<"'">>
         \o (IF Len(l) > 1 THEN <<",", " ">> ELSE <<>>) \o ReprItems(Tail(l))

\* repr() of the entries of a map of str: 'k': 'v', 'k2': 'v2'
RECURSIVE ReprEntries(_)
ReprEntries(l) ==
    IF Len(l) < 2 THEN <<>>
    ELSE <<"'">> \o l[1] \o <<"'", ":", " ", "'">> \o l[2] \o <<"'">>
         \o (IF Len(l) > 2 THEN <<",", " ">> ELSE <<>>) \o ReprEntries(Tail(Tail(l)))

\* str(v)
PyStr(v) ==
    CASE v.t = "str" -> v.s
      [] v.t = "num" -> v.s
      [] v.t = "list" -> <<"[">> \o ReprItems(v.l) \o <<"]">>
      [] v.t = "dict" -> <<"{">> \o ReprEntries(v.l) \o <<"}">>
      [] OTHER -> <<"N","o","n","e">>

\* a or b
Or(a, b) == IF Truthy(a) THEN a ELSE b

(***************************************************************************)
(* Field validation: WebCrawlerService                                     *)
(***************************************************************************)
Alnum == Upper \cup Lower \cup Digit

Keyword ==
    Alt(<< LitCI(<<"s","k","u">>), LitCI(<<"p","a","r","t">>),
           LitCI(<<"n","u","m","b","e","r">>), LitCI(<<"i","d">>),
           LitCI(<<"c","o","d","e">>), LitCI(<<"i","t","e","m">>) >>)

\* ^(sku|part|number|id|code|item)[:\s]*
PrefixPattern == Cat(<<Bol, Keyword, Star(Cls(Space \cup {":"}))>>)

\* [:\s]*(sku|part|number|id|code|item)$
SuffixPattern == Cat(<<Star(Cls(Space \cup {":"})), Keyword, Eol>>)

\* ^[A-Za-z0-9\-/\.\s]+$
AllowedChars == Cat(<<Bol, Plus(Cls(Alnum \cup Space \cup {"-", "/", "."})), Eol>>)

\* no entry of validation_rules for a field
NoRules == [present |-> FALSE, has_min |-> FALSE, min_length |-> 0,
            has_max |-> FALSE, max_length |-> 0]

Rules(lo, hi) == [present |-> TRUE, has_min |-> TRUE, min_length |-> lo,
                  has_max |-> TRUE, max_length |-> hi]

\* _validate_field_with_rules for field_type sku_id or part_number;
\* validation_rules maps a field to its rules
_validate_field_with_rules(value, field_type, validation_rules) ==
    LET rules == validation_rules[field_type] IN
    IF ~rules.present THEN TRUE
    ELSE IF rules.has_min /\ Len(value) < rules.min_length THEN FALSE
    ELSE IF rules.has_max /\ Len(value) > rules.max_length THEN FALSE
    ELSE IF ~ReSearch(Cls(Alnum), value) THEN FALSE
    ELSE ReMatch(AllowedChars, value)

\* the cleaning of _clean_and_validate_field, lines 525-532
CleanField(value) == Strip(SubOnce(SuffixPattern, SubOnce(PrefixPattern, Strip(value))))

\* _clean_and_validate_field for field_type sku_id or part_number
_clean_and_validate_field(value, field_type, validation_rules) ==
    LET cleaned == CleanField(value) IN
    IF value = <<>> \/ value = NotFound THEN NotFound
    ELSE IF Len(cleaned) < 2 THEN NotFound
    ELSE IF ~_validate_field_with_rules(cleaned, field_type, validation_rules)
         THEN NotFound
    ELSE cleaned

\* price_shapes without the shape of an amount that has no currency
price_shapes_with_currency ==
    << Cat(<<Bol, Ch("$"), Amount, Eol>>),
       Cat(<<Bol, Ch("$"), Star(Cls(Space)), Amount, Eol>>),
       Cat(<<Bol, Amount, Star(Cls(Space)), Lit(<<"U","S","D">>), Eol>>) >>

\* the four shapes of _clean_and_validate_price
price_shapes ==
    << Cat(<<Bol, Ch("$"), Amount, Eol>>),                         \* ^\$\d+[,\d]*\.?\d*$
       Cat(<<Bol, Ch("$"), Star(Cls(Space)), Amount, Eol>>),       \* ^\$\s*\d+[,\d]*\.?\d*$
       Cat(<<Bol, Amount, Star(Cls(Space)), Lit(<<"U","S","D">>), Eol>>), \* ^..\s*USD$
       Cat(<<Bol, Amount, Eol>>) >>                                \* ^\d+[,\d]*\.?\d*$

\* 'USD' in price.upper()
HasUSD(price) ==
    \E k \in 1..(Len(price) - 2) :
        <<UpperChar(price[k]), UpperChar(price[k + 1]), UpperChar(price[k + 2])>>
            = <<"U", "S", "D">>

\* _clean_and_validate_price with the test of line 570 before the search of
\* line 565
_clean_and_validate_price_accepts_first(price) ==
    IF price = <<>> \/ price = NotFound THEN NotFound
    ELSE LET p == Strip(price) IN
         IF \E k \in 1..Len(price_shapes) : ReMatch(price_shapes[k], p) THEN p
         ELSE IF ReSearch(D, p) /\ ("$" \in {p[k] : k \in 1..Len(p)} \/ HasUSD(p)) THEN p
         ELSE IF ReSearch(price_patterns[1], p)
              THEN Matched(p, Search(price_patterns[1], p))
         ELSE NotFound

\* _clean_and_validate_price on a str
_clean_and_validate_price(price) ==
    IF price = <<>> \/ price = NotFound THEN NotFound
    ELSE LET p == Strip(price) IN
         IF \E k \in 1..Len(price_shapes) : ReMatch(price_shapes[k], p) THEN p
         ELSE IF ReSearch(price_patterns[1], p)
              THEN Matched(p, Search(price_patterns[1], p))
         ELSE IF ReSearch(D, p) /\ ("$" \in {p[k] : k \in 1..Len(p)} \/ HasUSD(p)) THEN p
         ELSE NotFound

(***************************************************************************)
(* String helpers of the site override: "in", startswith, replace, lower   *)
(***************************************************************************)
\* sub occurs in s at position k
OccursAt(sub, s, k) == k + Len(sub) - 1 <= Len(s) /\ SubSeq(s, k, k + Len(sub) - 1) = sub

\* sub in s
Contains(sub, s) == \E k \in 1..(Len(s) + 1) : OccursAt(sub, s, k)

\* s.replace(sub, "") for a non-empty sub
RECURSIVE RemoveAll(_, _)
RemoveAll(s, sub) ==
    IF s = <<>> THEN <<>>
    ELSE IF OccursAt(sub, s, 1) THEN RemoveAll(SubSeq(s, Len(sub) + 1, Len(s)), sub)
    ELSE <<Head(s)>> \o RemoveAll(Tail(s), sub)

LowerChar(c) ==
    IF c \in Upper THEN LowerSeq[CHOOSE k \in 1..Len(UpperSeq) : UpperSeq[k] = c] ELSE c

\* str.lower()
ToLower(s) == [k \in 1..Len(s) |-> LowerChar(s[k])]

(***************************************************************************)
(* Site Override Resolver                                                  *)
(***************************************************************************)
\* _get_site_specific_selectors: site_strategies is the configured mapping in
\* its iteration order, a sequence of [name, keys, sel]; {} is keys = {}
RECURSIVE _get_site_specific_selectors(_, _)
_get_site_specific_selectors(url, site_strategies) ==
    IF site_strategies = <<>> THEN [keys |-> {}, sel |-> <<>>]
    ELSE IF Contains(ToLower(Head(site_strategies).name), ToLower(url))
         THEN [keys |-> Head(site_strategies).keys, sel |-> Head(site_strategies).sel]
         ELSE _get_site_specific_selectors(url, Tail(site_strategies))

\* site_selectors.get(key, [])
Selectors(site_selectors, key) ==
    IF key \in site_selectors.keys THEN site_selectors.sel[key] ELSE <<>>

\* data-{attr_name}="([^"]+)" ; the name is taken as literal text
DataAttrPattern(attr_name) ==
    Cat(<<Lit(<<"d","a","t","a","-">> \o attr_name \o <<"=", "\"">>),
          Group(Plus(NotCls({"\""}))), Ch("\"")>>)

\* class="[^"]*{class_name}[^"]*"[^>]*>([^<]+) ; the name is taken as literal text
ClassPattern(class_name) ==
    Cat(<<Lit(<<"c","l","a","s","s","=","\"">>), Star(NotCls({"\""})), Lit(class_name),
          Star(NotCls({"\""})), Ch("\""), Star(NotCls({">"})), Ch(">"),
          Group(Plus(NotCls({"<"})))>>)

\* the loop of _apply_site_specific_extraction over the selectors from the k-th
RECURSIVE ApplySelectors(_, _, _)
ApplySelectors(current_value, selectors, content) ==
    IF selectors = <<>> THEN current_value
    ELSE LET selector == Head(selectors)
             attr_name == RemoveAll(RemoveAll(selector, <<"[","d","a","t","a","-">>), <<"]">>)
             class_name == RemoveAll(selector, <<".">>)
             by_attr == Search(DataAttrPattern(attr_name), content)
             by_class == Search(ClassPattern(class_name), content)
         IN  IF Contains(<<"d","a","t","a","-">>, selector)
             THEN IF by_attr.found THEN Group1(content, by_attr)
                  ELSE ApplySelectors(current_value, Tail(selectors), content)
             ELSE IF OccursAt(<<".">>, selector, 1)
             THEN IF by_class.found THEN Strip(Group1(content, by_class))
                  ELSE ApplySelectors(current_value, Tail(selectors), content)
             ELSE ApplySelectors(current_value, Tail(selectors), content)

\* _apply_site_specific_extraction without lines 415-416
_apply_site_specific_extraction_overwrites(current_value, selectors, content) ==
    ApplySelectors(current_value, selectors, content)

_apply_site_specific_extraction(current_value, selectors, content) ==
    IF current_value # <<>> /\ current_value # NotFound THEN current_value
    ELSE ApplySelectors(current_value, selectors, content)

(***************************************************************************)
(* Structured Extractor                                                    *)
(***************************************************************************)
Fields == {"sku_id", "part_number", "product_name", "brand", "price", "description"}

\* the empty field-map {}
NoData == [f \in Fields |-> Absent]

\* _extract_field: data maps each field to its value, Absent for a missing key
_extract_field(data, field_name, fallback) ==
    IF data = NoData THEN fallback
    ELSE IF data[field_name].t = "list" /\ data[field_name].l # <<>>
         THEN Head(data[field_name].l)
    ELSE IF Truthy(data[field_name]) THEN PyStr(data[field_name])
    ELSE fallback

_extract_field_with_patterns(data, field_name, fallback, markdown_content, pattern_key) ==
    LET value == _extract_field(data, field_name, fallback)
        pattern_value == _extract_from_text(markdown_content, pattern_key)
    IN  IF (value = <<>> \/ value = NotFound) /\ pattern_value # <<>>
        THEN pattern_value ELSE value

(***************************************************************************)
(* LLM Verifier: OllamaContentFilter                                       *)
(***************************************************************************)
ModelKeys == Fields \cup {"attributes"}

\* the empty candidate set {}
NoCandidates == [k \in ModelKeys |-> Absent]

\* ^[A-Z0-9\-_/]+$ under re.IGNORECASE
SkuShape == Cat(<<Bol, Plus(Cls(Alnum \cup {"-", "_", "/"})), Eol>>)

\* ^[A-Z0-9\-_/\.]+$ under re.IGNORECASE
PartNumberShape == Cat(<<Bol, Plus(Cls(Alnum \cup {"-", "_", "/", "."})), Eol>>)

\* validation_rules of _validate_extracted_data
ExtractedDataRules(field) ==
    CASE field = "sku_id" ->
           [present |-> TRUE, has_min |-> TRUE, min_length |-> 2, max_length |-> 20,
            has_pattern |-> TRUE, pattern |-> SkuShape]
      [] field = "part_number" ->
           [present |-> TRUE, has_min |-> TRUE, min_length |-> 2, max_length |-> 25,
            has_pattern |-> TRUE, pattern |-> PartNumberShape]
      [] field = "brand" ->
           [present |-> TRUE, has_min |-> TRUE, min_length |-> 2, max_length |-> 50,
            has_pattern |-> FALSE, pattern |-> Bol]
      [] field = "description" ->
           [present |-> TRUE, has_min |-> FALSE, min_length |-> 0, max_length |-> 200,
            has_pattern |-> FALSE, pattern |-> Bol]
      [] OTHER ->
           [present |-> FALSE, has_min |-> FALSE, min_length |-> 0, max_length |-> 0,
            has_pattern |-> FALSE, pattern |-> Bol]

\* len(value) is defined for str and list
HasLen(v) == v.t \in {"str", "list"}

PyLen(v) == IF v.t = "str" THEN Len(v.s) ELSE Len(v.l)

\* value[:n]
Truncate(v, n) ==
    IF v.t = "str" THEN Str(SubSeq(v.s, 1, n)) ELSE List(SubSeq(v.l, 1, n))

\* lines 166-169: the length rules
LengthChecked(v, rules) ==
    IF rules.has_min /\ PyLen(v) < rules.min_length THEN Str(NotFound)
    ELSE IF PyLen(v) > rules.max_length THEN Truncate(v, rules.max_length)
    ELSE v

\* one field of _validate_extracted_data raises TypeError: len() of a value
\* without a length, or re.match on a value that is not a str
FieldRaises(field, v) ==
    /\ v.t # "absent"
    /\ ExtractedDataRules(field).present
    /\ \/ ~HasLen(v)
       \/ /\ ExtractedDataRules(field).has_pattern
          /\ LengthChecked(v, ExtractedDataRules(field)).t # "str"

\* lines 163-180 for one item of data
ValidatedField(field, v) ==
    LET rules == ExtractedDataRules(field)
        w == LengthChecked(v, rules)
    IN  IF v.t = "absent" \/ ~rules.present THEN v
        ELSE IF rules.has_pattern /\ w # Str(NotFound) /\ ~ReMatch(rules.pattern, w.s)
             THEN Str(NotFound)
        ELSE w

\* _validate_extracted_data: exc is the exception it raises, or "none"
_validate_extracted_data(data) ==
    IF \E k \in ModelKeys : FieldRaises(k, data[k])
    THEN [exc |-> "TypeError", val |-> NoCandidates]
    ELSE [exc |-> "none", val |-> [k \in ModelKeys |-> ValidatedField(k, data[k])]]

\* str.find(c) and str.rfind(c), 0-based, -1 when c does not occur
Find(text, c) ==
    IF \E k \in 1..Len(text) : text[k] = c
    THEN (CHOOSE k \in 1..Len(text) : text[k] = c /\ \A j \in 1..(k - 1) : text[j] # c) - 1
    ELSE -1

RFind(text, c) ==
    IF \E k \in 1..Len(text) : text[k] = c
    THEN (CHOOSE k \in 1..Len(text) :
              text[k] = c /\ \A j \in (k + 1)..Len(text) : text[j] # c) - 1
    ELSE -1

\* The body of enrich_content, lines 23-53.  A response of the model service:
\* error (the request raises), status, text (the "response" text), and what
\* json.loads makes of text[json_start:json_end]: valid, obj.
EnrichBody(resp) ==
    LET json_start == Find(resp.text, "{")
        json_end == RFind(resp.text, "}") + 1
        cleaned == _validate_extracted_data(resp.obj)
    IN  IF resp.error THEN [exc |-> "ClientError", val |-> NoCandidates]
        ELSE IF resp.status # 200 THEN [exc |-> "none", val |-> NoCandidates]
        ELSE IF ~(json_start >= 0 /\ json_end > json_start)
             THEN [exc |-> "none", val |-> NoCandidates]
        ELSE IF ~resp.valid THEN [exc |-> "JSONDecodeError", val |-> NoCandidates]
        ELSE IF cleaned.exc # "none" THEN cleaned
        ELSE [exc |-> "none",
              val |-> [cleaned.val EXCEPT !["attributes"] =
                          IF resp.obj["attributes"].t = "list"
                          THEN resp.obj["attributes"] ELSE List(<<>>)]]

\* enrich_content: JSONDecodeError (line 54) and every Exception (line 57) end
\* in "return {}"
enrich_content(resp) ==
    IF EnrichBody(resp).exc # "none" THEN NoCandidates ELSE EnrichBody(resp).val

\* enriched_data.get(key, default)
Get(enriched_data, key, default) ==
    IF enriched_data[key].t = "absent" THEN default ELSE enriched_data[key]

\* the keys of the dict that verify_and_clean_data returns
VerifiedKeys == {"sku_id", "part_number", "brand", "description", "attributes"}

\* Pick is pick(field), lines 69-73: (d.get(field) or "").strip() raises
\* AttributeError on a value that is true and is not a str
StripRaises(v) == Truthy(v) /\ v.t # "str"

Stripped(v) == IF Truthy(v) THEN Strip(v.s) ELSE <<>>

Pick(enriched, scraped_data, field) ==
    LET val == Stripped(enriched[field])
    IN  IF val = <<>> \/ ToLower(val) = ToLower(NotFound)
        THEN Stripped(scraped_data[field]) ELSE val

PickRaises(enriched, scraped_data, field) ==
    \/ StripRaises(enriched[field])
    \/ /\ Stripped(enriched[field]) = <<>> \/ ToLower(Stripped(enriched[field])) = ToLower(NotFound)
       /\ StripRaises(scraped_data[field])

\* verify_and_clean_data, lines 62-85, on the response of the model service:
\* exc is the exception it raises, or "none"
verify_and_clean_data(scraped_data, resp) ==
    LET enriched == enrich_content(resp)
        attributes == IF Get(enriched, "attributes", List(<<>>)).t = "list"
                      THEN Get(enriched, "attributes", List(<<>>)) ELSE List(<<>>)
    IN  IF \E f \in VerifiedKeys \ {"attributes"} : PickRaises(enriched, scraped_data, f)
        THEN [exc |-> "AttributeError", val |-> [key \in VerifiedKeys |-> Absent]]
        ELSE [exc |-> "none",
              val |-> [key \in VerifiedKeys |->
                          IF key = "attributes" THEN attributes
                          ELSE Str(Pick(enriched, scraped_data, key))]]

(***************************************************************************)
(* Merge Engine: WebCrawlerService                                         *)
(***************************************************************************)
ProductData(sku_id, part_number, product_name, brand, price, description, product_url) ==
    [sku_id |-> sku_id, part_number |-> part_number, product_name |-> product_name,
     brand |-> brand, price |-> price, description |-> description,
     product_url |-> product_url]

\* "Error occurred during extraction"
ErrorDescription ==
    <<"E","r","r","o","r"," ","o","c","c","u","r","r","e","d"," ","d","u","r","i","n","g",
      " ","e","x","t","r","a","c","t","i","o","n">>

\* _create_error_product with price="Not found" for line 581
_create_error_product_without_price(original_product) ==
    ProductData(NotFound, NotFound, original_product.product_name,
                IF original_product.brand # <<>> THEN original_product.brand ELSE NotFound,
                NotFound,
                IF original_product.description # <<>> THEN original_product.description
                ELSE ErrorDescription,
                original_product.product_url)

_create_error_product(original_product) ==
    ProductData(NotFound, NotFound, original_product.product_name,
                IF original_product.brand # <<>> THEN original_product.brand ELSE NotFound,
                IF original_product.price # <<>> THEN original_product.price ELSE NotFound,
                IF original_product.description # <<>> THEN original_product.description
                ELSE ErrorDescription,
                original_product.product_url)

\* lines 330-342: the field-map taken from result.extracted_content
ExtractedData(extracted_content) ==
    IF extracted_content.t \in {"list", "dict"} THEN extracted_content.data ELSE NoData

\* lines 351-359: structured extraction with the pattern fallback
Extracted(original_product, result) ==
    LET data == ExtractedData(result.extracted_content)
        markdown_content == result.markdown
    IN  [sku_id |-> _extract_field_with_patterns(data, "sku_id", original_product.sku_id,
                                                 markdown_content, "sku_patterns"),
         part_number |-> _extract_field_with_patterns(data, "part_number",
                             original_product.part_number, markdown_content,
                             "part_number_patterns"),
         product_name |-> _extract_field(data, "product_name", original_product.product_name),
         brand |-> _extract_field(data, "brand", original_product.brand),
         price |-> _extract_field_with_patterns(data, "price", original_product.price,
                                                markdown_content, "price_patterns"),
         description |-> _extract_field(data, "description", original_product.description)]

\* lines 362-369: the site override
SiteApplied(e, site_selectors, markdown_content) ==
    IF site_selectors.keys = {} THEN e
    ELSE [e EXCEPT
            !.sku_id = _apply_site_specific_extraction(
                           e.sku_id, Selectors(site_selectors, "sku_selectors"),
                           markdown_content),
            !.part_number = _apply_site_specific_extraction(
                           e.part_number, Selectors(site_selectors, "part_number_selectors"),
                           markdown_content),
            !.price = _apply_site_specific_extraction(
                           e.price, Selectors(site_selectors, "price_selectors"),
                           markdown_content)]

\* Merged without lines 383-384: the model's product_name is not merged
MergedKeepsName(e, markdown_content, enriched_data) ==
    IF markdown_content = <<>> THEN [f \in Fields |-> Str(e[f])]
    ELSE [f \in Fields |->
            IF e[f] = NotFound /\ f # "product_name"
            THEN Get(enriched_data, f, Str(e[f])) ELSE Str(e[f])]

\* lines 375-390: the merge with the model's candidates
Merged(e, markdown_content, enriched_data) ==
    IF markdown_content = <<>> THEN [f \in Fields |-> Str(e[f])]
    ELSE [f \in Fields |->
            IF e[f] = NotFound THEN Get(enriched_data, f, Str(e[f])) ELSE Str(e[f])]

\* a str field of ProductData takes a str, or None (the field stays unset)
Settable(v) == v.t \in {"str", "null"}

FieldText(v) == IF v.t = "str" THEN v.s ELSE <<>>

\* lines 393-405: final validation and the output record.  exc is the
\* exception raised, "none" when the record is built.
Finished(original_product, m, validation_rules) ==
    LET sku_id == IF ~Truthy(m["sku_id"]) THEN NotFound
                  ELSE _clean_and_validate_field(PyStr(m["sku_id"]), "sku_id",
                                                 validation_rules)
        part_number == IF ~Truthy(m["part_number"]) THEN NotFound
                       ELSE _clean_and_validate_field(PyStr(m["part_number"]),
                                                      "part_number", validation_rules)
        price == IF ~Truthy(m["price"]) THEN NotFound
                 ELSE _clean_and_validate_price(PyStr(m["price"]))
        product_name == Or(m["product_name"], Str(original_product.product_name))
        brand == Or(m["brand"], Or(Str(original_product.brand), Str(NotFound)))
        description == Or(m["description"], Str(original_product.description))
    IN  IF Settable(product_name) /\ Settable(brand) /\ Settable(description)
        THEN [exc |-> "none",
              val |-> ProductData(sku_id, part_number, FieldText(product_name),
                                  FieldText(brand), price, FieldText(description),
                                  original_product.product_url)]
        ELSE [exc |-> "TypeError", val |-> _create_error_product(original_product)]

\* _process_crawl_result with an empty enriched_data taken for a failure
_process_crawl_result_degrades(original_product, result, config, enriched_data) ==
    IF ~config.exists \/ enriched_data = NoCandidates
    THEN _create_error_product(original_product)
    ELSE Finished(original_product,
                  Merged(SiteApplied(Extracted(original_product, result),
                                     _get_site_specific_selectors(
                                         original_product.product_url,
                                         config.site_strategies),
                                     result.markdown),
                         result.markdown, enriched_data),
                  config.validation_rules).val

\* _process_crawl_result.  config is the startup configuration: exists (the
\* optional configuration file was found, so site_strategies and
\* validation_rules were assigned), site_strategies, validation_rules.
\* enriched_data is what enrich_content returned (read only with markdown).
_process_crawl_result(original_product, result, config, enriched_data) ==
    IF ~config.exists THEN _create_error_product(original_product)
    ELSE LET site_selectors == _get_site_specific_selectors(original_product.product_url,
                                                            config.site_strategies)
             e == SiteApplied(Extracted(original_product, result), site_selectors,
                              result.markdown)
             done == Finished(original_product, Merged(e, result.markdown, enriched_data),
                              config.validation_rules)
         IN  done.val

\* _fallback_extraction with line 469 alone as its body
_fallback_extraction_degrades(original_product, result, enriched_data) ==
    _create_error_product(original_product)

\* _fallback_extraction
_fallback_extraction(original_product, result, enriched_data) ==
    IF result.markdown = <<>> THEN _create_error_product(original_product)
    ELSE LET from_text(key) == Str(_extract_from_text(result.markdown, key))
             pick(key, v) == IF ~Truthy(v) THEN Get(enriched_data, key, v) ELSE v
             sku_id == Or(pick("sku_id", from_text("sku_patterns")), Str(NotFound))
             part_number == Or(pick("part_number", from_text("part_number_patterns")),
                               Str(NotFound))
             price == Or(pick("price", from_text("price_patterns")), Str(NotFound))
         IN  IF Settable(sku_id) /\ Settable(part_number) /\ Settable(price)
             THEN ProductData(FieldText(sku_id), FieldText(part_number),
                              original_product.product_name,
                              IF original_product.brand # <<>> THEN original_product.brand
                              ELSE NotFound,
                              FieldText(price), original_product.description,
                              original_product.product_url)
             ELSE _create_error_product(original_product)

(***************************************************************************)
(* Batch Orchestrator: one call of get_detailed_product_info               *)
(***************************************************************************)
VARIABLES
    config,             \* the startup configuration (see _process_crawl_result)
    products,           \* the argument of the call
    crawler,            \* self.crawler: "none", "open" once entered, "unentered"
                        \* when __aenter__ raised
    pc,                 \* where the call stands
    i,                  \* the loop variable of line 286
    batch,              \* products[i:i + batch_size]
    k,                  \* the items of batch already handled by the loop of line 290
    batch_results,
    enriched_products,
    result,             \* the crawl result of the item in flight
    crawled,            \* history: the crawl result of every item handled
    answered,           \* history: the model response of every item handled
    delays,             \* history: the items handled before each asyncio.sleep
    validator,          \* the validator under study: its function and its field
    value,              \* the text handed to the validator
    validated,          \* what the validator returned, applied once and again
    requests,           \* the SearchProduct requests that the server is handling
    stop,               \* where ProductSearchServer.start and stop stand
    sessions            \* the crawlers entered (__aenter__) and not yet exited

vars == <<config, products, crawler, pc, i, batch, k, batch_results, enriched_products,
          result, crawled, answered, delays, validator, value, validated, requests, stop,
          sessions>>

\* the variables of the server: one process, many requests
server == <<requests, stop>>

\* the variables of the study of one validator
validation == <<validator, value, validated>>

\* line 283
batch_size == 2

\* a crawl that raised, and the result slot while no item is in flight
Raised == [raises |-> TRUE, success |-> FALSE,
           extracted_content |-> [t |-> "none", data |-> NoData], markdown |-> <<>>]

CrawlResult(success, extracted_content, markdown) ==
    [raises |-> FALSE, success |-> success, extracted_content |-> extracted_content,
     markdown |-> markdown]

Response(error, status, text, valid, obj) ==
    [error |-> error, status |-> status, text |-> text, valid |-> valid, obj |-> obj]

\* no model call was made for the item
NotCalled == [called |-> FALSE, resp |-> Response(FALSE, 0, <<>>, FALSE, NoCandidates)]

Called(resp) == [called |-> TRUE, resp |-> resp]

\* the item reaches "await self.content_filter.enrich_content" (lines 377, 452)
CallsModel(cfg, res) ==
    /\ ~res.raises
    /\ res.markdown # <<>>
    /\ res.success => cfg.exists

\* lines 291-311 for one item: the record appended to batch_results
ItemOutput(cfg, product, res, answer) ==
    LET enriched_data == IF answer.called THEN enrich_content(answer.resp)
                         ELSE NoCandidates
    IN  IF res.raises THEN _create_error_product(product)
        ELSE IF res.success THEN _process_crawl_result(product, res, cfg, enriched_data)
        ELSE _fallback_extraction(product, res, enriched_data)

InitWith(Configs, ProductLists) ==
    /\ config \in Configs
    /\ products \in ProductLists
    /\ crawler \in {"none", "open"}
    /\ pc = "call"
    /\ i = 0
    /\ batch = <<>>
    /\ k = 0
    /\ batch_results = <<>>
    /\ enriched_products = <<>>
    /\ result = Raised
    /\ crawled = <<>>
    /\ answered = <<>>
    /\ delays = <<>>
    /\ validator = [fn |-> "none", field |-> "none"]
    /\ value = <<>>
    /\ validated = <<>>
    /\ requests = <<>>
    /\ stop = "serving"
    /\ sessions = IF crawler = "open" THEN 1 ELSE 0

\* lines 279-283: initialize() when there is no crawler yet
Call ==
    /\ pc = "call"
    /\ crawler' = IF crawler = "none" THEN "open" ELSE crawler
    /\ sessions' = IF crawler = "none" THEN sessions + 1 ELSE sessions
    /\ pc' = "loop"
    /\ UNCHANGED <<validation, server, config, products, i, batch, k, batch_results, enriched_products,
                   result, crawled, answered, delays>>

\* lines 279-280 and 264-266: there is no crawler yet and __aenter__ raises:
\* self.crawler is assigned and never entered, the call raises
CallFails ==
    /\ pc = "call"
    /\ crawler = "none"
    /\ crawler' = "unentered"
    /\ pc' = "raised"
    /\ UNCHANGED <<validation, server, sessions, config, products, i, batch, k, batch_results, enriched_products,
                   result, crawled, answered, delays>>

\* "Error occurred during enrichment"
EnrichmentErrorDescription == <<"E","r","r","o","r"," ","o","c","c","u","r","r","e","d"," ","d","u","r","i","n","g"," ","e","n","r","i","c","h","m","e","n","t">>

\* ProductCrawlerService._create_error_product
EnrichmentErrorProduct(product) ==
    ProductData(NotFound, NotFound, product.product_name,
                IF product.brand # <<>> THEN product.brand ELSE NotFound,
                IF product.price # <<>> THEN product.price ELSE NotFound,
                IF product.description # <<>> THEN product.description
                ELSE EnrichmentErrorDescription,
                product.product_url)

\* enrich_products, lines 46-49: get_detailed_product_info raised; the caller
\* is given one error record per product.  (When it returns, line 44 hands
\* its list on as it is: pc = "done".)
EnrichProductsCatches ==
    /\ pc = "raised"
    /\ enriched_products' = [j \in 1..Len(products) |-> EnrichmentErrorProduct(products[j])]
    /\ pc' = "caught"
    /\ UNCHANGED <<validation, server, sessions, config, products, crawler, i, batch, k, batch_results,
                   result, crawled, answered, delays>>

\* lines 286-288: the next group, or line 320 when the range is exhausted
BeginGroup ==
    /\ pc = "loop"
    /\ i < Len(products)
    /\ batch' = SubSeq(products, i + 1,
                       IF i + batch_size < Len(products) THEN i + batch_size
                       ELSE Len(products))
    /\ batch_results' = <<>>
    /\ k' = 0
    /\ pc' = "item"
    /\ UNCHANGED <<validation, server, sessions, config, products, crawler, i, enriched_products, result, crawled,
                   answered, delays>>

\* line 295: crawler.arun is awaited for the next item of the group
StartCrawl ==
    /\ pc = "item"
    /\ k < Len(batch)
    /\ pc' = "arun"
    /\ UNCHANGED <<validation, server, sessions, config, products, crawler, i, batch, k, batch_results,
                   enriched_products, result, crawled, answered, delays>>

\* Finish without the except of line 309: the exception of a crawl leaves
\* the call
FinishPropagates(res, answer, out) ==
    /\ batch_results' = Append(batch_results, out)
    /\ crawled' = Append(crawled, res)
    /\ answered' = Append(answered, answer)
    /\ k' = k + 1
    /\ result' = Raised
    /\ pc' = IF res.raises THEN "raised" ELSE "item"

\* the item is finished with output record out
Finish(res, answer, out) ==
    /\ batch_results' = Append(batch_results, out)
    /\ crawled' = Append(crawled, res)
    /\ answered' = Append(answered, answer)
    /\ k' = k + 1
    /\ result' = Raised
    /\ pc' = "item"

\* CrawlReturns with the try of line 291 around the loop instead of inside it:
\* a crawl that raises ends the group
CrawlReturnsLeavesGroup(Results) ==
    /\ pc = "arun"
    /\ \E res \in Results :
         IF CallsModel(config, res)
         THEN /\ result' = res
              /\ pc' = "model"
              /\ UNCHANGED <<batch, batch_results, crawled, answered, k>>
         ELSE /\ Finish(res, NotCalled, ItemOutput(config, batch[k + 1], res, NotCalled))
              /\ batch' = IF res.raises THEN SubSeq(batch, 1, k + 1) ELSE batch
    /\ UNCHANGED <<validation, server, sessions, config, products, crawler, i, enriched_products, delays>>

\* lines 295-311: arun returns or raises; the item is finished here unless it
\* goes on to the model call
CrawlReturns(Results) ==
    /\ pc = "arun"
    /\ \E res \in Results :
         IF CallsModel(config, res)
         THEN /\ result' = res
              /\ pc' = "model"
              /\ UNCHANGED <<batch_results, crawled, answered, k>>
         ELSE Finish(res, NotCalled, ItemOutput(config, batch[k + 1], res, NotCalled))
    /\ UNCHANGED <<validation, server, sessions, config, products, crawler, i, batch, enriched_products, delays>>

\* lines 377-405 and 452-467: the model call returns, the item is finished
ModelReturns(Responses) ==
    /\ pc = "model"
    /\ \E resp \in Responses :
         Finish(result, Called(resp), ItemOutput(config, batch[k + 1], result, Called(resp)))
    /\ UNCHANGED <<validation, server, sessions, config, products, crawler, i, batch, enriched_products, delays>>

\* EndGroup with "enriched_products = batch_results" for line 314
EndGroupAssigns ==
    /\ pc = "item"
    /\ k = Len(batch)
    /\ enriched_products' = batch_results
    /\ IF i + batch_size < Len(products)
       THEN /\ pc' = "sleep"
            /\ i' = i
       ELSE /\ pc' = "loop"
            /\ i' = i + batch_size
    /\ UNCHANGED <<validation, server, sessions, config, products, crawler, batch, k, batch_results, result, crawled,
                   answered, delays>>

\* EndGroup with "<=" for "<" in line 317
EndGroupSleepsLast ==
    /\ pc = "item"
    /\ k = Len(batch)
    /\ enriched_products' = enriched_products \o batch_results
    /\ IF i + batch_size <= Len(products)
       THEN /\ pc' = "sleep"
            /\ i' = i
       ELSE /\ pc' = "loop"
            /\ i' = i + batch_size
    /\ UNCHANGED <<validation, server, sessions, config, products, crawler, batch, k, batch_results, result, crawled,
                   answered, delays>>

\* lines 314-318: the group is done
EndGroup ==
    /\ pc = "item"
    /\ k = Len(batch)
    /\ enriched_products' = enriched_products \o batch_results
    /\ IF i + batch_size < Len(products)
       THEN /\ pc' = "sleep"
            /\ i' = i
       ELSE /\ pc' = "loop"
            /\ i' = i + batch_size
    /\ UNCHANGED <<validation, server, sessions, config, products, crawler, batch, k, batch_results, result, crawled,
                   answered, delays>>

\* line 318: asyncio.sleep(3)
Sleep ==
    /\ pc = "sleep"
    /\ delays' = Append(delays, Len(enriched_products))
    /\ i' = i + batch_size
    /\ pc' = "loop"
    /\ UNCHANGED <<validation, server, sessions, config, products, crawler, batch, k, batch_results, enriched_products,
                   result, crawled, answered>>

\* line 320
Return ==
    /\ pc = "loop"
    /\ i >= Len(products)
    /\ pc' = "done"
    /\ UNCHANGED <<validation, server, sessions, config, products, crawler, i, batch, k, batch_results,
                   enriched_products, result, crawled, answered, delays>>

\* the functions that validate one field, and their fields
Validators ==
    {[fn |-> "_clean_and_validate_field", field |-> f] : f \in {"sku_id", "part_number"}}
    \cup {[fn |-> "_clean_and_validate_price", field |-> "price"]}
    \cup {[fn |-> "_validate_extracted_data", field |-> f] :
             f \in {"sku_id", "part_number", "brand", "description"}}

\* what validator v returns for text x; _validate_extracted_data is given
\* the JSON object that holds x under the field
Validate(v, x, validation_rules) ==
    CASE v.fn = "_clean_and_validate_field" ->
           _clean_and_validate_field(x, v.field, validation_rules)
      [] v.fn = "_clean_and_validate_price" -> _clean_and_validate_price(x)
      [] v.fn = "_validate_extracted_data" ->
           FieldText(_validate_extracted_data(
                         [NoCandidates EXCEPT ![v.field] = Str(x)]).val[v.field])

InitValidate(Configs, Values) ==
    /\ config \in Configs
    /\ validator \in Validators
    /\ value \in Values
    /\ validated = <<>>
    /\ pc = "validate"
    /\ products = <<>>
    /\ crawler = "none"
    /\ i = 0
    /\ batch = <<>>
    /\ k = 0
    /\ batch_results = <<>>
    /\ enriched_products = <<>>
    /\ result = Raised
    /\ crawled = <<>>
    /\ answered = <<>>
    /\ delays = <<>>
    /\ requests = <<>>
    /\ stop = "serving"
    /\ sessions = 0

\* the validator is applied to the value, and then to what it returned
ValidateAgain ==
    /\ pc = "validate"
    /\ Len(validated) < 2
    /\ validated' = Append(validated,
                           Validate(validator,
                                    IF validated = <<>> THEN value
                                    ELSE validated[Len(validated)],
                                    config.validation_rules))
    /\ UNCHANGED <<validator, value, server, sessions, config, products, crawler, pc, i, batch, k,
                   batch_results, enriched_products, result, crawled, answered, delays>>

(***************************************************************************)
(* Inputs                                                                  *)
(***************************************************************************)
\* the longest list of products of a call
MaxItems == 3

\* a seed as GoogleSearchService.search builds it (lines 78-85): title,
\* snippet and link, the other fields empty
Discovered(title, snippet, link) == ProductData(<<>>, <<>>, title, <<>>, <<>>, snippet, link)

SeedTips == Discovered(<<"T","i","p","s">>, <<"t","i","p","s",","," ","9","6"," ","p","c","s">>, <<"v",".","t","e","s","t","/","p","1">>)

\* a search result without a snippet
SeedBare == Discovered(<<"R","a","c","k">>, <<>>, <<"w",".","t","e","s","t","/","p","2">>)

\* a record that went through the pipeline before: sentinels everywhere
SeedSentinel ==
    ProductData(NotFound, NotFound, <<"T","u","b","e">>, NotFound, NotFound, NotFound, <<"v",".","t","e","s","t","/","p","3">>)

\* a caller-supplied record that already carries values
SeedPriced ==
    ProductData(<<"P","X","-","1">>, <<>>, <<"P","u","m","p">>, <<"A","c","m","e">>, <<"$","9",".","9","9">>, <<"o","l","d">>, <<"u",".","t","e","s","t","/","p","4">>)

\* a search result whose title is the text "Not found"
SeedUnnamed == Discovered(NotFound, <<"p","a","g","e">>, <<"x",".","t","e","s","t","/","p","5">>)

ItemSeeds == {SeedTips, SeedBare, SeedSentinel, SeedPriced, SeedUnnamed}

BatchSeeds == {SeedTips, SeedSentinel}

\* validation_rules without entries
RulesEmpty == [f \in {"sku_id", "part_number"} |-> NoRules]

\* validation_rules with the lengths of the field table
RulesTable == [f \in {"sku_id", "part_number"} |->
                  IF f = "sku_id" THEN Rules(2, 20) ELSE Rules(2, 25)]

\* the optional configuration file does not exist: neither attribute is set
ConfigMissing == [exists |-> FALSE, site_strategies |-> <<>>, validation_rules |-> RulesEmpty]

\* the file exists and holds neither extraction_strategies nor validation_rules
ConfigEmpty == [exists |-> TRUE, site_strategies |-> <<>>, validation_rules |-> RulesEmpty]

\* the file holds rules and the hints of one site
ConfigFull ==
    [exists |-> TRUE,
     site_strategies |->
        << [name |-> <<"V",".","t","e","s","t">>,
            keys |-> {"sku_selectors", "price_selectors"},
            sel |-> [key \in {"sku_selectors", "price_selectors"} |->
                        IF key = "sku_selectors" THEN << <<"[","d","a","t","a","-","s","k","u","]">>, <<".","s","k","u">> >>
                        ELSE << <<".","p","r","i","c","e">> >>]] >>,
     validation_rules |-> RulesTable]

ItemConfigs == {ConfigMissing, ConfigEmpty, ConfigFull}

BatchConfigs == {ConfigFull}

FieldMap(sku_id, part_number, brand, price, description) ==
    [f \in Fields |->
        CASE f = "sku_id" -> sku_id
          [] f = "part_number" -> part_number
          [] f = "brand" -> brand
          [] f = "price" -> price
          [] f = "description" -> description
          [] OTHER -> Absent]

NoContent == [t |-> "none", data |-> NoData]

\* extracted_content of the worked example: [{"sku_id": ["ABC123"]}]
ContentExample ==
    [t |-> "list", data |-> FieldMap(List(<<<<"A","B","C","1","2","3">>>>), Absent, Absent, Absent, Absent)]

\* values that start with a label word
ContentLabelled ==
    [t |-> "dict",
     data |-> FieldMap(Str(<<"I","D","1","2","3","4","5">>), Str(<<"P","a","r","t",":"," ","9","6","0","A","/","1","0">>), Str(<<"A","c","m","e">>), Str(<<"$","1","2",".","5","0">>),
                       Str(<<"A"," ","r","a","c","k">>))]

\* values outside the shape of the field table
ContentOdd ==
    [t |-> "dict",
     data |-> FieldMap(Str(<<"A","B"," ","C">>), Str(<<"A","!","B">>), Absent, Str(<<"C","o","n","t","a","c","t"," ","f","o","r"," ","p","r","i","c","e">>), Absent)]

\* empty and null entries
ContentHollow ==
    [t |-> "dict", data |-> FieldMap(List(<<>>), Str(<<>>), Null, Absent, Absent)]

\* a list that starts with an empty element, and a nested map
ContentNested ==
    [t |-> "dict",
     data |-> FieldMap(Dict(<<<<"t","e","x","t">>, <<"X","1","Y","2","Z","3">>>>), List(<<<<>>, <<"P","N","-","1","0","0">>>>), Absent, Absent, Absent)]

\* extracted_content that is neither a list nor a dict (a JSON text)
ContentText == [t |-> "other", data |-> NoData]

ItemContents ==
    {NoContent, ContentExample, ContentLabelled, ContentOdd, ContentHollow, ContentText}

TextPlain == <<"p","l","a","i","n"," ","w","o","r","d","s">>

TextCode == <<"C","a","t"," ","c","o","d","e","1","2","3"," ","a","t"," ","$","5",".","0","0">>

TextSku == <<"S","K","U"," ","A","B","1","2","3","4"," ","o","r"," ","T","I","P","-","1","2","3">>

TextShort == <<"T","I","P","-","1","2","3">>

TextHtml == <<"<","b"," ","d","a","t","a","-","s","k","u","=","\"","Z","-","9","\""," ","c","l","a","s","s","=","\"","p","r","i","c","e","\"",">","$","7","<","/","b",">">>

\* a two-character price before a longer one
TextPrices == <<"$","7"," ","o","r"," ","$","1","2",".","5","0">>

ItemTexts == {<<>>, TextPlain, TextCode, TextSku, TextHtml}

ItemResults ==
    {Raised} \cup {CrawlResult(ok, c, m) : ok \in BOOLEAN, c \in ItemContents, m \in ItemTexts}
        \cup {CrawlResult(TRUE, ContentNested, m) : m \in {<<>>, TextPlain}}
        \cup {CrawlResult(ok, NoContent, TextPrices) : ok \in BOOLEAN}

BatchResults ==
    {Raised, CrawlResult(FALSE, NoContent, <<>>), CrawlResult(TRUE, ContentExample, TextShort)}

Candidates(sku_id, part_number, brand, price, description) ==
    [key \in ModelKeys |->
        CASE key = "sku_id" -> sku_id
          [] key = "part_number" -> part_number
          [] key = "brand" -> brand
          [] key = "price" -> price
          [] key = "description" -> description
          [] OTHER -> Absent]

\* the request raises
RespError == Response(TRUE, 0, <<>>, FALSE, NoCandidates)

RespStatus == Response(FALSE, 500, <<>>, FALSE, NoCandidates)

\* no JSON object in the text
RespProse == Response(FALSE, 200, <<"I"," ","f","o","u","n","d"," ","n","o","t","h","i","n","g",".">>, FALSE, NoCandidates)

\* a '}' before the only '{'
RespReversed == Response(FALSE, 200, <<"}"," ","o","r"," ","{">>, FALSE, NoCandidates)

\* braces around text that is no JSON
RespBroken == Response(FALSE, 200, <<"H","e","r","e",":"," ","{","s","k","u","_","i","d",":"," ","}">>, FALSE, NoCandidates)

\* the worked example: {"sku_id": "Not found", "brand": "Gilson"}; the text
\* keeps the braces of the answer, the object is what json.loads returns
RespExample ==
    Response(FALSE, 200, <<"S","u","r","e",":"," ","{",".",".",".","}">>, TRUE,
             Candidates(Str(NotFound), Absent, Str(<<"G","i","l","s","o","n">>), Absent, Absent))

RespFull ==
    Response(FALSE, 200, <<"{",".",".",".","}">>, TRUE,
             Candidates(Str(<<"X","Y","-","7","7">>), Str(<<"P","N",".","1">>), Str(<<"G","i","l","s","o","n">>), Str(<<"$","3">>), Str(<<"A"," ","t","i","p">>)))

\* "brand": ["a", "b"]
RespListBrand ==
    Response(FALSE, 200, <<"{",".",".",".","}">>, TRUE,
             Candidates(Str(<<"X","Y","-","7","7">>), Absent, List(<<<<"a">>, <<"b">>>>), Absent, Absent))

\* "sku_id": 12345
RespNumberSku ==
    Response(FALSE, 200, <<"{",".",".",".","}">>, TRUE,
             Candidates(Num(<<"1","2","3","4","5">>), Absent, Str(<<"G","i","l","s","o","n">>), Absent, Absent))

\* one element of "attributes": a JSON object, Absent for a key it lacks
Attribute(key, val) == [key |-> key, value |-> val]

\* "attributes": [{"key": "volume", "value": "200 uL"}, {"key": "color"},
\*                {"value": "blue"}]
RespAttributes ==
    Response(FALSE, 200, <<"{",".",".",".","}">>, TRUE,
             [Candidates(Str(<<"X","Y","-","7","7">>), Absent, Str(<<"G","i","l","s","o","n">>), Absent, Absent)
                EXCEPT !["attributes"] =
                    List(<< Attribute(Str(<<"v","o","l","u","m","e">>), Str(<<"2","0","0"," ","u","L">>)),
                            Attribute(Str(<<"c","o","l","o","r">>), Absent),
                            Attribute(Absent, Str(<<"b","l","u","e">>)) >>)])

\* "attributes": "none"
RespAttributesText ==
    Response(FALSE, 200, <<"{",".",".",".","}">>, TRUE,
             [Candidates(Str(<<"X","Y","-","7","7">>), Absent, Str(<<"G","i","l","s","o","n">>), Absent, Absent)
                EXCEPT !["attributes"] = Str(<<"n","o","n","e">>)])

\* {"product_name": "Pipette", "brand": "Gilson"}
RespNamed ==
    Response(FALSE, 200, <<"{",".",".",".","}">>, TRUE,
             [Candidates(Absent, Absent, Str(<<"G","i","l","s","o","n">>), Absent, Absent)
                EXCEPT !["product_name"] = Str(<<"P","i","p","e","t","t","e">>)])

ItemResponses ==
    {RespNamed, RespError, RespStatus, RespProse, RespReversed, RespBroken, RespExample, RespFull,
     RespListBrand, RespNumberSku, RespAttributes, RespAttributesText}

BatchResponses == {RespError, RespExample, RespListBrand}

\* the lists of at most n seeds
Lists(Seeds, n) == UNION {[1..m -> Seeds] : m \in 0..n}

(***************************************************************************)
(* Specifications                                                          *)
(***************************************************************************)
\* a call on a list of up to MaxItems products
Init == InitWith(BatchConfigs, Lists(BatchSeeds, MaxItems)) /\ crawler = "none"

Next ==
    \/ Call
    \/ CallFails
    \/ EnrichProductsCatches
    \/ BeginGroup
    \/ StartCrawl
    \/ CrawlReturns(BatchResults)
    \/ ModelReturns(BatchResponses)
    \/ EndGroup
    \/ Sleep
    \/ Return

Spec == Init /\ [][Next]_vars

\* a call on one product, over every crawl result and model response
InitItem == InitWith(ItemConfigs, {<<seed>> : seed \in ItemSeeds})

NextItem ==
    \/ Call
    \/ CallFails
    \/ EnrichProductsCatches
    \/ BeginGroup
    \/ StartCrawl
    \/ CrawlReturns(ItemResults)
    \/ ModelReturns(ItemResponses)
    \/ EndGroup
    \/ Return

SpecItem == InitItem /\ [][NextItem]_vars

\* the longest text drawn from ValidateChars
MaxLen == 4

ValidateChars == {"i", "d", "1", " ", "$"}

Texts(chars, n) == UNION {[1..m -> chars] : m \in 0..n}

\* values of the field table and of the price table, and labelled values
ValidateExamples ==
    {NotFound, <<"A","B","C","1","2","3">>, <<"I","D","1","2","3","4","5">>, <<"i","d","i","d","1","2">>, <<"P","a","r","t",":"," ","9","6","0","A","/","1","0">>, <<"A","B"," ","C">>, <<"$","1","4","5",".","0","0">>,
     <<"$"," ","1","4","5",".","0","0">>, <<"1","4","5",".","0","0"," ","U","S","D">>, <<"1","4","5",".","0","0">>, <<"C","o","n","t","a","c","t"," ","f","o","r"," ","p","r","i","c","e">>, <<"1","4","5",",","0","0",".","0","0",".","0","0">>,
     <<"A","B","C","D","E","F","G","H","I","J","K","L","M","N","O","P","Q","R","S","T","U">>,
     <<" ","$","1",",","2","3","4",".","5","0"," ">>, <<"1","2"," ","U","S","D">>, <<"7",".">>, <<"$","1",".","2",".","3">>, <<"a","b","o","u","t"," ","$","5",".","0","0"," ","e","a","c","h">>, <<"U","S","D"," ","1","4","5">>}

\* the text of n letters x
Long(n) == [m \in 1..n |-> "x"]

\* texts just within and just beyond the longest length of each field
LongExamples == {Long(n) : n \in {20, 21, 25, 26, 50, 51, 200, 201}}

\* the longest text given to the validators that search a text for patterns
LongestSearched == 51

\* one validator applied twice to one text
InitValidator ==
    /\ InitValidate({ConfigEmpty, ConfigFull},
                    Texts(ValidateChars, MaxLen) \cup ValidateExamples \cup LongExamples)
    /\ Len(value) > LongestSearched => validator.fn = "_validate_extracted_data"

NextValidator == ValidateAgain

SpecValidate == InitValidator /\ [][NextValidator]_vars

(***************************************************************************)
(* The server: SearchProduct requests on the one ProductSearchServicer,    *)
(* and ProductSearchServer.stop.  The handlers are coroutines of one event *)
(* loop: a step of a request runs from one await to the next.              *)
(***************************************************************************)
\* the requests that arrive while the server runs
MaxRequests == 2

Requests == 1..MaxRequests

\* the longest list of search results
MaxFound == 3

\* a request: where its handler stands, and the locals of its
\* get_detailed_product_info
Request(at, found, idx, group, done, group_results, enriched, res) ==
    [pc |-> at, products |-> found, i |-> idx, batch |-> group, k |-> done,
     batch_results |-> group_results, enriched_products |-> enriched, result |-> res]

\* not yet received
Idle == Request("idle", <<>>, 0, <<>>, 0, <<>>, <<>>, Raised)

\* the request awaits arun or enrich_content for an item
InFlight(req) == req.pc \in {"arun", "model"}

\* the index in products of the item that the request handles
Item(req) == req.i + req.k + 1

\* lines 286-290: the group that starts at idx, awaiting arun for its first item
GroupAt(req, idx) ==
    [req EXCEPT !.pc = "arun", !.i = idx, !.k = 0, !.batch_results = <<>>,
                !.batch = SubSeq(req.products, idx + 1,
                                 IF idx + batch_size < Len(req.products)
                                 THEN idx + batch_size ELSE Len(req.products))]

\* lines 299-320 after an item: the record is appended, then the handler runs
\* to its next await (arun for the next item of the group, asyncio.sleep) or
\* to the return of the response
Continue(req, out) ==
    LET group_results == Append(req.batch_results, out)
        handled == [req EXCEPT !.batch_results = group_results, !.k = req.k + 1,
                               !.result = Raised]
        extended == [handled EXCEPT !.enriched_products =
                                        req.enriched_products \o group_results]
    IN  IF req.k + 1 < Len(req.batch) THEN [handled EXCEPT !.pc = "arun"]
        ELSE IF req.i + batch_size < Len(req.products) THEN [extended EXCEPT !.pc = "sleep"]
        ELSE [extended EXCEPT !.pc = "done"]

\* SearchProduct is called and awaits google_search.search (line 41); the
\* server takes no request once stop() has begun
Receive(r) ==
    /\ pc = "serve"
    /\ stop = "serving"
    /\ requests[r].pc = "idle"
    /\ requests' = [requests EXCEPT ![r].pc = "search"]
    /\ UNCHANGED <<validation, stop, sessions, config, products, crawler, pc, i, batch, k, batch_results,
                   enriched_products, result, crawled, answered, delays>>

\* lines 41-50 and 279-295: the search returns; without results the response
\* is empty, else enrich_products runs up to the crawl of the first product
SearchReturns(r, Found) ==
    /\ pc = "serve"
    /\ requests[r].pc = "search"
    /\ \E found \in Found :
         /\ requests' = [requests EXCEPT ![r] =
                IF found = <<>> THEN [requests[r] EXCEPT !.pc = "done"]
                ELSE GroupAt([requests[r] EXCEPT !.products = found], 0)]
         /\ crawler' = IF found # <<>> /\ crawler = "none" THEN "open" ELSE crawler
         /\ sessions' = IF found # <<>> /\ crawler = "none" THEN sessions + 1 ELSE sessions
    /\ UNCHANGED <<validation, stop, config, products, pc, i, batch, k, batch_results,
                   enriched_products, result, crawled, answered, delays>>

\* lines 295-311: arun returns or raises for the item of request r
CrawlEnds(r, Results) ==
    /\ pc = "serve"
    /\ requests[r].pc = "arun"
    /\ \E res \in Results :
         LET req == requests[r]
         IN  requests' = [requests EXCEPT ![r] =
                 IF CallsModel(config, res) THEN [req EXCEPT !.pc = "model", !.result = res]
                 ELSE Continue(req, ItemOutput(config, req.batch[req.k + 1], res, NotCalled))]
    /\ UNCHANGED <<validation, stop, sessions, config, products, crawler, pc, i, batch, k, batch_results,
                   enriched_products, result, crawled, answered, delays>>

\* lines 377-405 and 452-467: the model call of request r returns
ModelEnds(r, Responses) ==
    /\ pc = "serve"
    /\ requests[r].pc = "model"
    /\ \E resp \in Responses :
         LET req == requests[r]
         IN  requests' = [requests EXCEPT ![r] =
                 Continue(req, ItemOutput(config, req.batch[req.k + 1], req.result,
                                          Called(resp)))]
    /\ UNCHANGED <<validation, stop, sessions, config, products, crawler, pc, i, batch, k, batch_results,
                   enriched_products, result, crawled, answered, delays>>

\* line 318: asyncio.sleep(3) returns, the next group starts
SleepEnds(r) ==
    /\ pc = "serve"
    /\ requests[r].pc = "sleep"
    /\ requests' = [requests EXCEPT ![r] = GroupAt(requests[r], requests[r].i + batch_size)]
    /\ UNCHANGED <<validation, stop, sessions, config, products, crawler, pc, i, batch, k, batch_results,
                   enriched_products, result, crawled, answered, delays>>

\* main.py lines 35-36 and 63-80, web_crawler.py lines 262-272: start() awaits
\* servicer.initialize().  When __aenter__ raises, the crawler is assigned and
\* never entered, and the except of start() calls stop(), which has no server
\* to stop and goes on to cleanup
StartInitialize ==
    /\ pc = "serve"
    /\ stop = "start"
    /\ \E entered \in BOOLEAN :
         IF entered
         THEN /\ crawler' = "open"
              /\ sessions' = sessions + 1
              /\ stop' = "listen"
         ELSE /\ crawler' = "unentered"
              /\ sessions' = sessions
              /\ stop' = "cleanup"
    /\ UNCHANGED <<validation, requests, config, products, pc, i, batch, k, batch_results,
                   enriched_products, result, crawled, answered, delays>>

\* main.py lines 40-61 and 63-75: the port is bound and the server started,
\* the signal handlers are installed; when that raises, the except of start()
\* calls stop(), which awaits server.stop(grace=5)
Listen ==
    /\ pc = "serve"
    /\ stop = "listen"
    /\ \E started \in BOOLEAN : stop' = IF started THEN "serving" ELSE "stopping"
    /\ UNCHANGED <<validation, requests, sessions, config, products, crawler, pc, i, batch, k,
                   batch_results, enriched_products, result, crawled, answered, delays>>

\* main.py lines 100-103: SIGINT before the handlers of line 57 are installed:
\* KeyboardInterrupt is not an Exception, the except of line 63 does not run
\* and neither does stop(); the process ends
Interrupt ==
    /\ pc = "serve"
    /\ stop \in {"start", "listen"}
    /\ stop' = "interrupted"
    /\ UNCHANGED <<validation, requests, sessions, config, products, crawler, pc, i, batch, k,
                   batch_results, enriched_products, result, crawled, answered, delays>>

\* main.py lines 53-55 and 68-75: the signal handler starts stop(), which
\* awaits server.stop(grace=5)
Signal ==
    /\ pc = "serve"
    /\ stop = "serving"
    /\ stop' = "stopping"
    /\ UNCHANGED <<validation, requests, sessions, config, products, crawler, pc, i, batch, k,
                   batch_results, enriched_products, result, crawled, answered, delays>>

\* main.py lines 75-80 and web_crawler.py lines 271-272: server.stop returns
\* when the requests are answered or the grace period is over, and then the
\* requests still being handled are aborted; cleanup awaits __aexit__
ServerStops ==
    /\ pc = "serve"
    /\ stop = "stopping"
    /\ requests' = [r \in Requests |->
                       IF requests[r].pc \in {"idle", "done"} THEN requests[r]
                       ELSE [requests[r] EXCEPT !.pc = "aborted"]]
    /\ stop' = IF crawler # "none" THEN "cleanup" ELSE "stopped"
    /\ UNCHANGED <<validation, sessions, config, products, crawler, pc, i, batch, k, batch_results,
                   enriched_products, result, crawled, answered, delays>>

\* web_crawler.py lines 272-274: __aexit__ returns, self.crawler = None
CleanupEnds ==
    /\ pc = "serve"
    /\ stop = "cleanup"
    /\ crawler' = "none"
    /\ sessions' = IF crawler = "open" THEN sessions - 1 ELSE sessions
    /\ stop' = "stopped"
    /\ UNCHANGED <<validation, requests, config, products, pc, i, batch, k, batch_results,
                   enriched_products, result, crawled, answered, delays>>

\* the search results of a request
ServerFound == Lists({SeedTips}, MaxFound)

ServerResults == {Raised, CrawlResult(TRUE, ContentExample, TextShort)}

ServerResponses == {RespExample}

\* main.py lines 28-35: start() is called
InitServer ==
    /\ config = ConfigFull
    /\ requests = [r \in Requests |-> Idle]
    /\ stop = "start"
    /\ crawler = "none"
    /\ sessions = 0
    /\ pc = "serve"
    /\ products = <<>>
    /\ i = 0
    /\ batch = <<>>
    /\ k = 0
    /\ batch_results = <<>>
    /\ enriched_products = <<>>
    /\ result = Raised
    /\ crawled = <<>>
    /\ answered = <<>>
    /\ delays = <<>>
    /\ validator = [fn |-> "none", field |-> "none"]
    /\ value = <<>>
    /\ validated = <<>>

NextServer ==
    \/ StartInitialize
    \/ Listen
    \/ Interrupt
    \/ \E r \in Requests : Receive(r)
    \/ \E r \in Requests : SearchReturns(r, ServerFound)
    \/ \E r \in Requests : CrawlEnds(r, ServerResults)
    \/ \E r \in Requests : ModelEnds(r, ServerResponses)
    \/ \E r \in Requests : SleepEnds(r)
    \/ Signal
    \/ ServerStops
    \/ CleanupEnds

SpecServer == InitServer /\ [][NextServer]_vars

(***************************************************************************)
(* Properties of the batch call (specification Spec)                       *)
(***************************************************************************)
\* the records produced so far, in the order of production
Produced ==
    enriched_products \o (IF pc \in {"item", "arun", "model"} THEN batch_results ELSE <<>>)

\* C1: the call returns one record per product, in input order: the output
\* has the length of the input and output[j] carries the product_url of
\* input[j], whatever happened to each item; while the call runs, the
\* records produced so far are those of the first items
OrderAndLength ==
    /\ Len(Produced) <= Len(products)
    /\ \A j \in 1..Len(Produced) : Produced[j].product_url = products[j].product_url
    /\ pc = "done" => Len(enriched_products) = Len(products)

\* C1 witness: a finished call of three items, one whose crawl raised, one
\* whose crawl reported failure, and one crawled whose model call failed or
\* whose extraction raised
OrderAndLengthReached ==
    /\ pc = "done"
    /\ Len(products) = 3
    /\ \E a, b, c \in 1..3 :
         /\ crawled[a].raises
         /\ ~crawled[b].raises /\ ~crawled[b].success
         /\ crawled[c].success /\ answered[c].called
         /\ \/ answered[c].resp = RespError
            \/ Finished(products[c],
                        Merged(Extracted(products[c], crawled[c]), crawled[c].markdown,
                               enrich_content(answered[c].resp)),
                        config.validation_rules).exc # "none"

\* the record of a crawl that raised: sentinels, and the seed's url and name
Degraded(out, seed) ==
    /\ out.sku_id = NotFound
    /\ out.part_number = NotFound
    /\ out.product_url = seed.product_url
    /\ out.product_name = seed.product_name

\* C2: batch isolation: when the call returns, every item was crawled, the
\* record of each item is the one its own seed, crawl result and model
\* response determine (no other item's failure changes it), and the record of
\* an item whose crawl raised is the degraded record of its seed
BatchIsolation ==
    pc = "done" =>
        /\ Len(crawled) = Len(products)
        /\ Len(enriched_products) = Len(products)
        /\ \A j \in 1..Len(products) :
             /\ enriched_products[j] =
                    ItemOutput(config, products[j], crawled[j], answered[j])
             /\ crawled[j].raises => Degraded(enriched_products[j], products[j])

\* C2 witness: three items, the crawl of the second raised, the first and the
\* third were crawled and carry an extracted sku_id
BatchIsolationReached ==
    /\ pc = "done"
    /\ Len(products) = 3
    /\ crawled[2].raises
    /\ crawled[1].success /\ enriched_products[1].sku_id = <<"A","B","C","1","2","3">>
    /\ crawled[3].success /\ enriched_products[3].sku_id = <<"A","B","C","1","2","3">>
    /\ Degraded(enriched_products[2], products[2])

\* ceil(n / batch_size)
Groups(n) == (n + batch_size - 1) \div batch_size

\* C10: pacing: a call on n >= 1 items makes exactly ceil(n/2) - 1 delays, the
\* d-th one when the 2*d items of the first d groups are done and before any
\* item of the next group is crawled, and none after the final group
Pacing ==
    /\ \A d \in 1..Len(delays) :
         /\ delays[d] = batch_size * d
         /\ delays[d] < Len(products)
    /\ pc \in {"item", "arun", "model"} => Len(delays) = i \div batch_size
    /\ (pc = "done" /\ Len(products) >= 1) => Len(delays) = Groups(Len(products)) - 1

\* C10 witness: three items, one delay, made when two items were done
PacingReached == pc = "done" /\ Len(products) = 3 /\ delays = <<2>>

(***************************************************************************)
(* Properties of one product (specification SpecItem)                      *)
(***************************************************************************)
\* the fields an extraction stage can fill
ExtractionFields == {"sku_id", "part_number", "brand", "price", "description"}

\* C3: invariant I1: in every returned record none of sku_id, part_number,
\* brand, price and description is the empty string, also for a seed of the
\* discovery step whose fields are empty
NoEmptyField ==
    pc = "done" =>
        \A j \in 1..Len(enriched_products) :
            \A f \in ExtractionFields : enriched_products[j][f] # <<>>

\* the rule of the field table: lo..hi characters, all of them in chars
TableRule(v, lo, hi, chars) ==
    /\ Len(v) >= lo
    /\ Len(v) <= hi
    /\ \A n \in 1..Len(v) : v[n] \in chars

SkuRule(v) == TableRule(v, 2, 20, Alnum \cup {"-", "_", "/"})

PartNumberRule(v) == TableRule(v, 2, 25, Alnum \cup {"-", "_", "/", "."})

\* C4: sentinel closure: in every returned record sku_id is "Not found" or
\* 2..20 characters of [A-Za-z0-9-_/], and part_number is "Not found" or
\* 2..25 characters of [A-Za-z0-9-_/.], whichever stage supplied the value
\* and whether or not validation rules were loaded
SentinelClosure ==
    pc = "done" =>
        \A j \in 1..Len(enriched_products) :
            /\ enriched_products[j].sku_id = NotFound \/ SkuRule(enriched_products[j].sku_id)
            /\ \/ enriched_products[j].part_number = NotFound
               \/ PartNumberRule(enriched_products[j].part_number)

\* the item went through _process_crawl_result with the configuration loaded
Processed == pc = "done" /\ config.exists /\ crawled[1].success

\* what the structured stage yields for a field: "" when it yields nothing
Structured(f) == _extract_field(ExtractedData(crawled[1].extracted_content), f, <<>>)

\* C5: precedence: when the structured field-map yields a sku_id that passes
\* the rule of the field table, the sku_id of the output record is that
\* value, whatever the model, the page text and the site hints hold
StructuredFirst ==
    (Processed /\ Structured("sku_id") # NotFound /\ SkuRule(Structured("sku_id")))
        => enriched_products[1].sku_id = Structured("sku_id")

\* what the pattern stage and the site override yield for a field
FromPage(f) ==
    LET hints == _get_site_specific_selectors(products[1].product_url,
                                              config.site_strategies)
        patterns == IF f = "sku_id" THEN "sku_patterns" ELSE "part_number_patterns"
        selectors == IF f = "sku_id" THEN "sku_selectors" ELSE "part_number_selectors"
        pattern_value == _extract_from_text(crawled[1].markdown, patterns)
    IN  IF f = "brand" THEN <<>>
        ELSE IF pattern_value # <<>> THEN pattern_value
        ELSE _apply_site_specific_extraction(<<>>, Selectors(hints, selectors),
                                             crawled[1].markdown)

\* the model returned a value for the field that the model-side validator and
\* the final validator leave as it is
ModelPasses(f) ==
    LET v == answered[1].resp.obj[f] IN
    /\ answered[1].called
    /\ v.t = "str" /\ v.s # NotFound
    /\ enrich_content(answered[1].resp)[f] = v
    /\ f # "brand" => _clean_and_validate_field(v.s, f, config.validation_rules) = v.s

\* C6: model fallback: for sku_id, part_number and brand, when the structured
\* stage and the pattern and site override stages yield nothing, the seed's
\* field being empty, and the model returns a value that passes validation,
\* the field of the output record is the model's value
ModelFallback ==
    \A f \in {"sku_id", "part_number", "brand"} :
        (/\ Processed
         /\ products[1][f] = <<>>
         /\ Structured(f) = <<>>
         /\ FromPage(f) = <<>>
         /\ ModelPasses(f)) => enriched_products[1][f] = answered[1].resp.obj[f].s

\* C7: pattern fallback: when the structured field-map has no sku_id and the
\* page text holds a match of an sku pattern longer than 2 characters, the
\* sku_id of the output record is the first such match in pattern-list
\* order, not altered or dropped by the later cleaning and validation
PatternFallback ==
    (/\ Processed
     /\ products[1].sku_id = <<>>
     /\ Structured("sku_id") = <<>>
     /\ _extract_from_text(crawled[1].markdown, "sku_patterns") # <<>>)
        => enriched_products[1].sku_id =
               _extract_from_text(crawled[1].markdown, "sku_patterns")

\* the model's response is one that enrich_content has to contain: no
\* response, a status other than 200, no brace pair, no JSON between the
\* braces, or a JSON object with a value that is no string
Malformed(resp) ==
    \/ resp.error
    \/ resp.status # 200
    \/ ~(Find(resp.text, "{") >= 0 /\ RFind(resp.text, "}") + 1 > Find(resp.text, "{"))
    \/ ~resp.valid
    \/ \E key \in Fields : resp.obj[key].t \notin {"absent", "str"}

\* C9: containment of model failures: for a transport error, a status other
\* than 200, a response without a brace pair, braces around invalid JSON, or
\* a JSON object with values of unexpected types, enrich_content returns
\* the empty candidate set
ModelContained ==
    \A j \in 1..Len(answered) :
        (answered[j].called /\ Malformed(answered[j].resp))
            => enrich_content(answered[j].resp) = NoCandidates

(***************************************************************************)
(* Properties of the validators (specification SpecValidate)               *)
(***************************************************************************)
\* C8: idempotent validation: each field validator returns "Not found" for
\* "Not found", and returns what it returned before when it is applied to
\* its own result: validate(validate(x)) = validate(x) for every x
IdempotentValidation ==
    /\ (validated # <<>> /\ value = NotFound) => validated[1] = NotFound
    /\ Len(validated) = 2 => validated[2] = validated[1]

\* s is made of digits
AllDigits(s) == \A n \in 1..Len(s) : s[n] \in Digit

\* s reads d[,d]*.?d* : a digit, then digits and commas, then at most one
\* point followed by digits only
IsAmount(s) ==
    /\ s # <<>>
    /\ s[1] \in Digit
    /\ \E b \in 1..Len(s) :
         /\ \A n \in 1..b : s[n] \in Digit \cup {","}
         /\ \/ b = Len(s)
            \/ s[b + 1] = "." /\ AllDigits(SubSeq(s, b + 2, Len(s)))

\* s has one of the four shapes of the price table
IsPrice(s) ==
    \/ IsAmount(s)
    \/ s # <<>> /\ s[1] = "$" /\ IsAmount(LStrip(Tail(s)))
    \/ /\ Len(s) > 3
       /\ SubSeq(s, Len(s) - 2, Len(s)) = <<"U", "S", "D">>
       /\ IsAmount(RStrip(SubSeq(s, 1, Len(s) - 3)))

\* the validator under study is _clean_and_validate_price and has returned
PriceValidated == validator.fn = "_clean_and_validate_price" /\ validated # <<>>

\* C11: price table: _clean_and_validate_price returns the trimmed input for
\* every text that has one of the four shapes $d[,d]*.?d*, $ d[,d]*.?d*,
\* d[,d]*.?d* USD and d[,d]*.?d*, and "Not found" for "Contact for price"
\* and for "145,00.00.00"
PriceTable ==
    PriceValidated =>
        /\ IsPrice(Strip(value)) => validated[1] = Strip(value)
        /\ value \in {<<"C","o","n","t","a","c","t"," ","f","o","r"," ","p","r","i","c","e">>, <<"1","4","5",",","0","0",".","0","0",".","0","0">>} => validated[1] = NotFound

\* C11 witness: the amount "145.00" was validated and returned as it is
PriceTableReached ==
    PriceValidated /\ value = <<"1","4","5",".","0","0">> /\ validated[1] = <<"1","4","5",".","0","0">>

\* r is an amount with a leading '$' that occurs in p
EmbeddedAmount(r, p) ==
    /\ r # <<>>
    /\ r[1] = "$"
    /\ IsAmount(Tail(r))
    /\ Contains(r, p)

\* C12: price rule closure: _clean_and_validate_price returns the input when
\* it has one of the four shapes, or an amount with a leading '$' that occurs
\* in the input, or "Not found", and never any other text
PriceClosure ==
    PriceValidated =>
        \/ validated[1] = NotFound
        \/ IsPrice(Strip(value)) /\ validated[1] = Strip(value)
        \/ EmbeddedAmount(validated[1], Strip(value))

\* p holds a '$' that a digit follows
HasEmbeddedAmount(p) == \E n \in 1..(Len(p) - 1) : p[n] = "$" /\ p[n + 1] \in Digit

\* p holds a digit and a '$' or the letters USD in any case
LooksLikePrice(p) ==
    /\ \E n \in 1..Len(p) : p[n] \in Digit
    /\ \/ \E n \in 1..Len(p) : p[n] = "$"
       \/ Contains(<<"u", "s", "d">>, ToLower(p))

\* C12 as the code has it: _clean_and_validate_price returns the trimmed
\* input when it has one of the four shapes; else an amount with a leading
\* '$' that occurs in it, when there is one; else the trimmed input itself
\* when it holds a digit and a '$' or the letters USD; else "Not found"
PriceClosureLenient ==
    PriceValidated =>
        LET p == Strip(value)
            r == validated[1]
        IN  /\ \/ r = NotFound
               \/ IsPrice(p) /\ r = p
               \/ EmbeddedAmount(r, p)
               \/ LooksLikePrice(p) /\ r = p
            /\ (~IsPrice(p) /\ HasEmbeddedAmount(p)) => EmbeddedAmount(r, p)
            /\ (~IsPrice(p) /\ ~LooksLikePrice(p)) => r = NotFound

\* C12 witness: "USD 145" has none of the four shapes and no amount with a
\* leading '$', and is returned as it is
PriceClosureLenientReached ==
    PriceValidated /\ value = <<"U","S","D"," ","1","4","5">> /\ validated[1] = <<"U","S","D"," ","1","4","5">>

(***************************************************************************)
(* Properties of the degraded record and of failed crawls (SpecItem)       *)
(***************************************************************************)
\* what enrich_content returned for item j, {} when it was not called
Enriched(j) ==
    IF answered[j].called THEN enrich_content(answered[j].resp) ELSE NoCandidates

\* the record of item j was built by _create_error_product: the crawl raised
\* (line 311), _process_crawl_result raised (line 409), or the crawl failed
\* and left no text (line 469)
Substituted(j) ==
    LET res == crawled[j]
        hints == _get_site_specific_selectors(products[j].product_url,
                                              config.site_strategies)
        e == SiteApplied(Extracted(products[j], res), hints, res.markdown)
    IN  \/ res.raises
        \/ res.success /\ ~config.exists
        \/ /\ res.success /\ config.exists
           /\ Finished(products[j], Merged(e, res.markdown, Enriched(j)),
                       config.validation_rules).exc # "none"
        \/ ~res.raises /\ ~res.success /\ res.markdown = <<>>

\* v when the seed has it, else the fallback
SeedOr(v, fallback) == IF v # <<>> THEN v ELSE fallback

\* C13: degraded record: a record substituted by _create_error_product has
\* sku_id, part_number and price "Not found", the seed's product_url and
\* product_name, and the seed's description when there is one, also for a
\* seed that carries a price
DegradedRecord ==
    pc = "done" =>
        \A j \in 1..Len(enriched_products) :
            Substituted(j) =>
                /\ enriched_products[j].sku_id = NotFound
                /\ enriched_products[j].part_number = NotFound
                /\ enriched_products[j].price = NotFound
                /\ enriched_products[j].product_url = products[j].product_url
                /\ enriched_products[j].product_name = products[j].product_name
                /\ products[j].description # <<>> =>
                       enriched_products[j].description = products[j].description

\* C13 as the code has it: the substituted record has sku_id and part_number
\* "Not found", the seed's product_url and product_name, and the seed's
\* brand, price and description where the seed has them; an empty brand or
\* price becomes "Not found", an empty description the error text
DegradedRecordKeepsSeed ==
    pc = "done" =>
        \A j \in 1..Len(enriched_products) :
            Substituted(j) =>
                enriched_products[j] =
                    ProductData(NotFound, NotFound, products[j].product_name,
                                SeedOr(products[j].brand, NotFound),
                                SeedOr(products[j].price, NotFound),
                                SeedOr(products[j].description, ErrorDescription),
                                products[j].product_url)

\* C13 witness: the crawl of a seed that carries the price "$9.99" raised,
\* and the record keeps the price
DegradedRecordKeepsSeedReached ==
    /\ pc = "done"
    /\ products[1] = SeedPriced
    /\ crawled[1].raises
    /\ enriched_products[1].price = <<"$","9",".","9","9">>
    /\ enriched_products[1].sku_id = NotFound

\* the engine reported failure for the one item of the call
CrawlFailed == pc = "done" /\ ~crawled[1].raises /\ ~crawled[1].success

PatternKey(f) ==
    CASE f = "sku_id" -> "sku_patterns"
      [] f = "part_number" -> "part_number_patterns"
      [] f = "price" -> "price_patterns"

ModelSideValidated == validator.fn = "_validate_extracted_data" /\ validated # <<>>

\* the lengths and the characters of the field table
TableMin(f) == IF f = "description" THEN 0 ELSE 2

TableMax(f) ==
    CASE f = "sku_id" -> 20
      [] f = "part_number" -> 25
      [] f = "brand" -> 50
      [] f = "description" -> 200

TableShape(f, x) ==
    CASE f = "sku_id" -> \A n \in 1..Len(x) : x[n] \in Alnum \cup {"-", "_", "/"}
      [] f = "part_number" -> \A n \in 1..Len(x) : x[n] \in Alnum \cup {"-", "_", "/", "."}
      [] OTHER -> TRUE

\* C15: model-side length rule: in _validate_extracted_data a sku_id,
\* part_number or brand longer than its maximum becomes "Not found" and is
\* not truncated and kept; a description longer than 200 characters is cut
\* to its first 200; a value shorter than the minimum or not of the field's
\* shape becomes "Not found"
ModelSideLengths ==
    ModelSideValidated =>
        LET f == validator.field
            r == validated[1]
        IN  /\ (f # "description" /\ Len(value) > TableMax(f)) => r = NotFound
            /\ (f = "description" /\ Len(value) > 200) => r = SubSeq(value, 1, 200)
            /\ Len(value) < TableMin(f) => r = NotFound
            /\ ~TableShape(f, value) => r = NotFound

(***************************************************************************)
(* Properties of the candidate set (SpecItem)                              *)
(***************************************************************************)
\* the model service was asked about the product and the call has returned
Asked == pc = "done" /\ answered[1].called

\* the seed as the dict of scraped fields given to verify_and_clean_data
ScrapedOf(product) == [f \in Fields |-> Str(product[f])]

\* v is a list whose elements all carry a key and a value
PairsOnly(v) ==
    /\ v.t = "list"
    /\ \A n \in 1..Len(v.l) : v.l[n].key.t # "absent" /\ v.l[n].value.t # "absent"

\* C16: attribute well-formedness: in the candidate set returned by
\* enrich_content, and in the dict returned by verify_and_clean_data,
\* "attributes" (when the set has it) is a list; an "attributes" of the
\* model's JSON that is not a list becomes the empty list; and every element
\* of the returned list carries both a key and a value
AttributesWellFormed ==
    Asked =>
        LET resp == answered[1].resp
            enriched == enrich_content(resp)
            verified == verify_and_clean_data(ScrapedOf(products[1]), resp)
        IN  /\ enriched["attributes"].t # "absent" =>
                   /\ resp.obj["attributes"].t # "list" => enriched["attributes"] = List(<<>>)
                   /\ PairsOnly(enriched["attributes"])
            /\ verified.exc = "none" =>
                   /\ resp.obj["attributes"].t # "list" =>
                          verified.val["attributes"] = List(<<>>)
                   /\ PairsOnly(verified.val["attributes"])

(***************************************************************************)
(* Properties of the product name (SpecItem)                               *)
(***************************************************************************)
\* the product_name the model service suggests: "" when it suggests none
Suggested ==
    IF answered[1].called
    THEN FieldText(enrich_content(answered[1].resp)["product_name"]) ELSE <<>>

\* the product_name after the structured stage
NameSoFar ==
    IF Structured("product_name") # <<>> THEN Structured("product_name")
    ELSE products[1].product_name

\* every candidate of the model service is a str
TextOnly == \A f \in Fields : enrich_content(answered[1].resp)[f].t \in {"str", "absent"}

\* C17 as stated: name retention: the product_name of the output record is
\* the seed's unless the structured extractor supplied a product_name, and
\* the product_name that the model suggests is never copied into the record
NameRetention ==
    pc = "done" =>
        /\ (crawled[1].success /\ Structured("product_name") # <<>>)
           \/ enriched_products[1].product_name = products[1].product_name
        /\ (Suggested # <<>> /\ Suggested # NameSoFar /\ Suggested # products[1].product_name)
               => enriched_products[1].product_name # Suggested

\* C17: name retention, amended: the product_name of the output record is
\* the seed's or the one the structured extractor supplied, except that for
\* a processed page whose name so far is exactly "Not found" the
\* product_name that the model suggests replaces it; a name other than
\* "Not found" is never replaced by the model's
NameRetentionUnlessSentinel ==
    pc = "done" =>
        /\ enriched_products[1].product_name \in
               {products[1].product_name, NameSoFar, Suggested}
        /\ (~Processed \/ NameSoFar # NotFound \/ crawled[1].markdown = <<>>)
               => enriched_products[1].product_name \in {products[1].product_name, NameSoFar}
        /\ (Processed /\ NameSoFar = NotFound /\ crawled[1].markdown # <<>>
              /\ answered[1].called /\ TextOnly /\ Suggested # <<>>)
               => enriched_products[1].product_name = Suggested

\* the seed is named "Not found", the model suggests "Pipette" and the output
\* record is named "Pipette"
NameRetentionUnlessSentinelReached ==
    /\ pc = "done" /\ Processed
    /\ products[1].product_name = NotFound
    /\ Suggested = <<"P","i","p","e","t","t","e">>
    /\ enriched_products[1].product_name = <<"P","i","p","e","t","t","e">>

(***************************************************************************)
(* Properties of the errors of a call (Spec)                               *)
(***************************************************************************)
\* an exception was raised while item j was processed: by the crawl, or
\* inside _process_crawl_result
ItemRaised(j) ==
    \/ crawled[j].raises
    \/ crawled[j].success /\ ~config.exists
    \/ /\ crawled[j].success /\ config.exists
       /\ Finished(products[j],
                   Merged(SiteApplied(Extracted(products[j], crawled[j]),
                                      _get_site_specific_selectors(products[j].product_url,
                                                                   config.site_strategies),
                                      crawled[j].markdown),
                          crawled[j].markdown,
                          IF answered[j].called THEN enrich_content(answered[j].resp)
                          ELSE NoCandidates),
                   config.validation_rules).exc # "none"

\* C20: batch-level error surface: get_detailed_product_info raises only
\* when the crawler cannot be entered, before any item is handled; once an
\* item has been handled the call never raises, whatever was raised for the
\* items; and enrich_products never raises: it answers a call that raised
\* with one record per product
BatchErrorSurface ==
    /\ pc = "raised" => (crawler = "unentered" /\ crawled = <<>> /\ i = 0)
    /\ crawled # <<>> => pc \in {"loop", "item", "arun", "model", "sleep", "done"}
    /\ pc = "caught" =>
           /\ crawled = <<>>
           /\ Len(enriched_products) = Len(products)
           /\ \A j \in 1..Len(products) :
                  enriched_products[j].product_url = products[j].product_url

\* the call has returned its records although an exception was raised for
\* its first item and for its last
BatchErrorSurfaceReached ==
    /\ pc = "done"
    /\ Len(products) = MaxItems
    /\ ItemRaised(1) /\ ItemRaised(MaxItems)
    /\ Len(enriched_products) = MaxItems

(***************************************************************************)
(* Properties of the server (SpecServer)                                   *)
(***************************************************************************)
\* C18: single in-flight crawl: at every moment at most one request awaits
\* crawler.arun on the crawler that the requests share; and in one call the
\* crawl of an item is awaited only when the records of all items before it
\* have been produced
SingleCrawl ==
    /\ Cardinality({r \in Requests : requests[r].pc = "arun"}) <= 1
    /\ \A r \in Requests :
           InFlight(requests[r]) =>
               Len(requests[r].enriched_products \o requests[r].batch_results)
                   = Item(requests[r]) - 1

\* request r awaits arun after the step, for an item other than before
Initiates(r) ==
    /\ requests'[r].pc = "arun"
    /\ requests[r].pc = "arun" => Item(requests'[r]) # Item(requests[r])

\* C19: shutdown: once stop() has begun no request starts the crawl of a
\* further item; the item in flight at that moment is handled to its end,
\* not aborted; and the crawler is not released while an item is in flight
Shutdown ==
    [][stop # "serving" =>
          \A r \in Requests :
              /\ ~Initiates(r)
              /\ InFlight(requests[r]) => requests'[r].pc # "aborted"
              /\ InFlight(requests'[r]) => crawler' = "open"]_vars

(***************************************************************************)
(* Properties of the crawling session (SpecServer)                         *)
(***************************************************************************)
\* the server has ended: stop() is through, or the process was interrupted
Exited == stop \in {"stopped", "interrupted"}

\* the handler of request r is between its first crawl and its response
Handling(req) == req.pc \in {"arun", "model", "sleep"}

\* C21: session lifecycle: at most one crawling session is open at any time
\* (no second one is opened while one is open); while a request handles its
\* products the session is neither released nor replaced, so all its items
\* use the same one; and when the server has ended, the session that was
\* opened has been released, also when start() failed with an exception
SessionLifecycle ==
    /\ [](sessions <= 1)
    /\ [](Exited => sessions = 0)
    /\ [][\A r \in Requests :
            (Handling(requests[r]) /\ Handling(requests'[r]))
                => (sessions' = sessions /\ crawler' = crawler)]_vars

(***************************************************************************)
(* Properties of the site hints (SpecItem)                                 *)
(***************************************************************************)
\* the configured site n is named in the url, whatever the case of letters
Names(url, site_strategies, n) ==
    Contains(ToLower(site_strategies[n].name), ToLower(url))

\* hints are those of the first configured site named in the url, or empty
FirstNamed(url, site_strategies, hints) ==
    IF \E n \in 1..Len(site_strategies) : Names(url, site_strategies, n)
    THEN \E n \in 1..Len(site_strategies) :
             /\ Names(url, site_strategies, n)
             /\ \A m \in 1..(n - 1) : ~Names(url, site_strategies, m)
             /\ hints.keys = site_strategies[n].keys
             /\ \A key \in hints.keys : hints.sel[key] = site_strategies[n].sel[key]
    ELSE hints.keys = {}

\* C22: site hint lookup: _get_site_specific_selectors returns the hints of
\* the first configured site whose name is in the url, letters compared
\* without case, or the empty mapping; and when the configuration file does
\* not exist the lookup gives the empty mapping too, so that a successfully
\* crawled item is processed as with an empty configuration and is not
\* replaced by the degraded record
SiteHintLookup ==
    (pc = "done" /\ crawled[1].success) =>
        /\ config.exists =>
               FirstNamed(products[1].product_url, config.site_strategies,
                          _get_site_specific_selectors(products[1].product_url,
                                                       config.site_strategies))
        /\ ~config.exists =>
               enriched_products[1] =
                   _process_crawl_result(products[1], crawled[1],
                                         [config EXCEPT !.exists = TRUE],
                                         IF answered[1].called
                                         THEN enrich_content(answered[1].resp)
                                         ELSE NoCandidates)

(***************************************************************************)
(* Properties of the site override (SpecItem)                              *)
(***************************************************************************)
\* the end of the longest run of characters outside stops that starts at p:
\* the position after its last character
RunEnd(content, p, stops) ==
    CHOOSE q \in p..(Len(content) + 1) :
        /\ q = Len(content) + 1 \/ content[q] \in stops
        /\ \A j \in p..(q - 1) : content[j] \notin stops

\* data-NAME="VALUE" stands at p: VALUE is not empty and is closed by a quote
DataPrefix(name) == <<"d","a","t","a","-">> \o name \o <<"=", "\"">>

DataHit(content, name, p) ==
    /\ OccursAt(DataPrefix(name), content, p)
    /\ RunEnd(content, p + Len(DataPrefix(name)), {"\""}) > p + Len(DataPrefix(name))
    /\ RunEnd(content, p + Len(DataPrefix(name)), {"\""}) <= Len(content)

DataValue(content, name, p) ==
    SubSeq(content, p + Len(DataPrefix(name)),
           RunEnd(content, p + Len(DataPrefix(name)), {"\""}) - 1)

\* class="..NAME.." ...>TEXT stands at p: the positions of the closing quote,
\* of the ">" and of the end of TEXT
ClassQuote(content, p) == RunEnd(content, p + 7, {"\""})

ClassClose(content, p) == RunEnd(content, ClassQuote(content, p) + 1, {">"})

ClassEnd(content, p) == RunEnd(content, ClassClose(content, p) + 1, {"<"})

ClassHit(content, name, p) ==
    /\ OccursAt(<<"c","l","a","s","s","=","\"">>, content, p)
    /\ ClassQuote(content, p) <= Len(content)
    /\ Contains(name, SubSeq(content, p + 7, ClassQuote(content, p) - 1))
    /\ ClassClose(content, p) <= Len(content)
    /\ ClassEnd(content, p) > ClassClose(content, p) + 1

ClassValue(content, p) ==
    Strip(SubSeq(content, ClassClose(content, p) + 1, ClassEnd(content, p) - 1))

\* a hint [data-NAME] or .NAME, and the places of the content it matches
IsDataHint(selector) ==
    /\ Len(selector) > 7
    /\ SubSeq(selector, 1, 6) = <<"[","d","a","t","a","-">>
    /\ selector[Len(selector)] = "]"

IsClassHint(selector) == Len(selector) > 1 /\ selector[1] = "."

HintHit(content, selector, p) ==
    \/ IsDataHint(selector)
         /\ DataHit(content, SubSeq(selector, 7, Len(selector) - 1), p)
    \/ IsClassHint(selector) /\ ClassHit(content, Tail(selector), p)

HintValue(content, selector, p) ==
    IF IsDataHint(selector) THEN DataValue(content, SubSeq(selector, 7, Len(selector) - 1), p)
    ELSE ClassValue(content, p)

Matches(content, selector) == \E p \in 1..Len(content) : HintHit(content, selector, p)

\* v is the first match of the first hint of selectors that matches
FirstHint(content, selectors, v) ==
    \E n \in 1..Len(selectors) :
        /\ Matches(content, selectors[n])
        /\ \A m \in 1..(n - 1) : ~Matches(content, selectors[m])
        /\ \E p \in 1..Len(content) :
               /\ HintHit(content, selectors[n], p)
               /\ \A q \in 1..(p - 1) : ~HintHit(content, selectors[n], q)
               /\ v = HintValue(content, selectors[n], p)

\* the values tried as current_value, besides the one of the item
CurrentValues == {<<>>, NotFound, <<"A","B","-","1">>, <<"n","o","t"," ","f","o","u","n","d">>}

SelectorKeys == {"sku_selectors", "part_number_selectors", "price_selectors"}

\* the field that a list of hints is for
HintedField(key) ==
    CASE key = "sku_selectors" -> "sku_id"
      [] key = "part_number_selectors" -> "part_number"
      [] key = "price_selectors" -> "price"

\* the hints of the item's site, and the value of a field before the override
SiteHints(key) ==
    Selectors(_get_site_specific_selectors(products[1].product_url, config.site_strategies),
              key)

BeforeOverride(key) == Extracted(products[1], crawled[1])[HintedField(key)]

\* C23: the site override never overwrites: _apply_site_specific_extraction
\* returns current_value when it is neither empty nor "Not found", whatever
\* the hints and the content; for an empty or "Not found" current_value it
\* returns the first match of the first hint that matches the content
\* ([data-NAME] or .NAME form, in the order of the hints), and current_value
\* when no hint matches
NeverOverwrites ==
    Processed =>
        \A key \in SelectorKeys :
            \A current_value \in CurrentValues \cup {BeforeOverride(key)} :
                LET v == _apply_site_specific_extraction(current_value, SiteHints(key),
                                                         crawled[1].markdown)
                IN  IF current_value # <<>> /\ current_value # NotFound
                    THEN v = current_value
                    ELSE IF \E n \in 1..Len(SiteHints(key)) :
                                Matches(crawled[1].markdown, SiteHints(key)[n])
                    THEN FirstHint(crawled[1].markdown, SiteHints(key), v)
                    ELSE v = current_value

\* the structured stage gave a sku_id, a hint for sku_id matches the page and
\* the sku_id is kept; no price was found and the price hint supplies it
NeverOverwritesReached ==
    /\ Processed
    /\ BeforeOverride("sku_selectors") = <<"A","B","C","1","2","3">>
    /\ SiteHints("sku_selectors") # <<>>
    /\ Matches(crawled[1].markdown, SiteHints("sku_selectors")[1])
    /\ _apply_site_specific_extraction(BeforeOverride("sku_selectors"),
                                       SiteHints("sku_selectors"), crawled[1].markdown)
           = <<"A","B","C","1","2","3">>
    /\ BeforeOverride("price_selectors") = <<>>
    /\ _apply_site_specific_extraction(BeforeOverride("price_selectors"),
                                       SiteHints("price_selectors"), crawled[1].markdown)
           = <<"$","7">>

(***************************************************************************)
(* C24: of a successful crawl's field-map the structured stage takes, per  *)
(* field, the first element with a non-empty string form of a list, the    *)
(* value under "text" (else under "value", else the first non-empty value) *)
(* of a nested map, the string form of a scalar, and nothing of an absent, *)
(* null or all-empty entry.                                                *)
(***************************************************************************)
RECURSIVE FirstNonEmpty(_)
FirstNonEmpty(l) ==
    IF l = <<>> THEN <<>>
    ELSE IF Head(l) # <<>> THEN Head(l)
    ELSE FirstNonEmpty(Tail(l))

RECURSIVE Under(_, _)
Under(l, key) ==
    IF Len(l) < 2 THEN <<>>
    ELSE IF l[1] = key THEN l[2]
    ELSE Under(Tail(Tail(l)), key)

RECURSIVE FirstValue(_)
FirstValue(l) ==
    IF Len(l) < 2 THEN <<>>
    ELSE IF l[2] # <<>> THEN l[2]
    ELSE FirstValue(Tail(Tail(l)))

Normalised(v) ==
    CASE v.t = "list" -> FirstNonEmpty(v.l)
      [] v.t = "dict" ->
           IF Under(v.l, <<"t","e","x","t">>) # <<>> THEN Under(v.l, <<"t","e","x","t">>)
           ELSE IF Under(v.l, <<"v","a","l","u","e">>) # <<>> THEN Under(v.l, <<"v","a","l","u","e">>)
           ELSE FirstValue(v.l)
      [] v.t \in {"str", "num"} -> v.s
      [] OTHER -> <<>>

StructuredNormalisation ==
    (pc = "done" /\ crawled[1].success /\ ~crawled[1].raises)
        => \A f \in Fields :
              Structured(f) = Normalised(ExtractedData(crawled[1].extracted_content)[f])

\* the scalar and the one-element list cases, as the claim states them
StructuredNormalisationReached ==
    /\ pc = "done" /\ crawled[1].success /\ ~crawled[1].raises
    /\ crawled[1].extracted_content = ContentLabelled
    /\ Structured("sku_id") = <<"I","D","1","2","3","4","5">>

\* a list's leading empty element is taken, a nested map is stringified
StructuredTakesFirst ==
    /\ pc = "done" /\ crawled[1].success /\ ~crawled[1].raises
    /\ crawled[1].extracted_content = ContentNested
    /\ Structured("part_number") = <<>>
    /\ Structured("sku_id") = PyStr(Dict(<<<<"t","e","x","t">>, <<"X","1","Y","2","Z","3">>>>))

(***************************************************************************)
(* C25: _extract_from_text goes through the category's patterns in list    *)
(* order, without regard to case, and returns the trimmed first match of   *)
(* the first pattern whose first match is longer than two characters; it   *)
(* returns nothing exactly when the text is empty or every pattern has no  *)
(* match or a first match of at most two characters.                       *)
(***************************************************************************)
PatternKeys == {"sku_patterns", "part_number_patterns", "price_patterns"}

\* re.findall(pattern, text)[0], trimmed, of the j-th pattern
FirstOf(text, pattern_key, j) ==
    Strip(Matched(text, Search(medical_patterns(pattern_key)[j], text)))

\* the j-th pattern has a first match that is kept
Accepted(text, pattern_key, j) ==
    /\ ReSearch(medical_patterns(pattern_key)[j], text)
    /\ Len(FirstOf(text, pattern_key, j)) > 2

\* re.findall(r, s) has, from position from on, a match longer than two characters
RECURSIVE SomeLongMatch(_, _, _)
SomeLongMatch(r, s, from) ==
    LET p == FirstStartFrom(r, s, from)
        e == Head(MatchAt(r, s, p))[1]
    IN  /\ p # 0
        /\ \/ Len(Strip(Slice(s, p, e))) > 2
           \/ SomeLongMatch(r, s, IF e > p THEN e ELSE p + 1)

\* the item's text has just been scanned: the model is being asked (lines 377,
\* 452), or the item was finished without a model call
Scanned ==
    \/ pc = "model"
    \/ pc = "item" /\ k = 1 /\ ~crawled[1].raises /\ ~answered[1].called

ScannedText == IF pc = "model" THEN result.markdown ELSE crawled[1].markdown

PatternBankFirstMatch ==
    Scanned =>
        \A pattern_key \in PatternKeys :
            LET text == ScannedText
                n == Len(medical_patterns(pattern_key))
                r == _extract_from_text(text, pattern_key)
                first == [j \in 1..n |-> FirstOf(text, pattern_key, j)]
                kept == {j \in 1..n : Accepted(text, pattern_key, j)}
            IN  /\ r = <<>> <=> (text = <<>> \/ kept = {})
                /\ r # <<>> =>
                      \E j \in kept :
                          /\ r = first[j]
                          /\ \A h \in 1..(j - 1) : h \notin kept

\* a later pattern's match is returned, found without regard to case, and a
\* pattern whose first match is "$7" yields nothing
PatternBankFirstMatchReached ==
    /\ Scanned
    /\ \/ /\ ScannedText = TextCode
          /\ _extract_from_text(TextCode, "part_number_patterns") = <<"c","o","d","e","1","2","3">>
          /\ _extract_from_text(TextCode, "price_patterns") = <<"$","5",".","0","0">>
       \/ /\ ScannedText = TextPrices
          /\ _extract_from_text(TextPrices, "price_patterns") = <<>>

\* the claim as stated: nothing is returned only if no pattern has a match
\* longer than two characters anywhere in the text
PatternBankMatch ==
    Scanned =>
        \A pattern_key \in PatternKeys :
            LET text == ScannedText
                n == Len(medical_patterns(pattern_key))
            IN  _extract_from_text(text, pattern_key) = <<>>
                    => (text = <<>>
                        \/ \A j \in 1..n : ~SomeLongMatch(medical_patterns(pattern_key)[j], text, 1))

(***************************************************************************)
(* C26: when the model call of a successfully crawled item fails (the      *)
(* request raises or the status is not 200) or otherwise yields the empty  *)
(* candidate set, the six fields keep the values that the structured,      *)
(* pattern and site-override stages resolved, and the record is the one    *)
(* that the final validation builds from them, not the degraded record.    *)
(***************************************************************************)
\* the model call was made and came back with nothing
ModelUnavailable ==
    /\ Processed
    /\ answered[1].called
    /\ \/ answered[1].resp.error
       \/ answered[1].resp.status # 200
       \/ enrich_content(answered[1].resp) = NoCandidates

\* the six fields after the structured, pattern and site-override stages
BeforeModel ==
    SiteApplied(Extracted(products[1], crawled[1]),
                _get_site_specific_selectors(products[1].product_url, config.site_strategies),
                crawled[1].markdown)

ModelUnavailableFrame ==
    ModelUnavailable =>
        LET e == BeforeModel
            done == Finished(products[1], [f \in Fields |-> Str(e[f])],
                             config.validation_rules)
        IN  /\ done.exc = "none"
            /\ enriched_products[1] = done.val

\* the request raised or the service answered 500, and the record carries
\* the sku_id of the field-map
ModelUnavailableFrameReached ==
    /\ ModelUnavailable
    /\ answered[1].resp \in {RespError, RespStatus}
    /\ crawled[1].extracted_content = ContentExample
    /\ BeforeModel["sku_id"] = <<"A","B","C","1","2","3">>
    /\ enriched_products[1].sku_id = <<"A","B","C","1","2","3">>
    /\ enriched_products[1] # _create_error_product(products[1])

=============================================================================
